---- MODULE Spec2Model ----
(***************************************************************************)
(* Model of the brozzler crawl-frontier coordinator.                       *)
(*                                                                         *)
(*   src/brozzler/db.py     BrozzlerRethinkDb: the store adapter and the   *)
(*                          claim / insert / update / query operations     *)
(*   src/brozzler/model.py  Job, Site, Page, scope rules, new_site         *)
(*                                                                         *)
(* The backing store is external.  Each ReQL query that the code issues    *)
(* with one run() is one atomic step of the store, as the store contract   *)
(* of the coordinator requires ("filter, limit to one, conditionally       *)
(* update, return the updated document").                                  *)
(***************************************************************************)
EXTENDS Integers, Sequences, FiniteSets, TLC

VARIABLES
    sites,      \* table "sites": a set of documents, keyed by id
    pages,      \* table "pages": a set of documents, keyed by id
    heldSites,  \* per worker, the Sites it got from claim_site and has not given back
    last,       \* the most recent coordinator call: operation, argument, outcome, value
    log,        \* the claim_page calls made on a fixed page set, in order
    ns,         \* the new_site call in progress (model.py) and the ids whose
                \* seed page could not be saved
    site,       \* a Site object in memory: its seed, its scope, and the urls
                \* note_seed_redirect was called with
    jobs,       \* table "jobs": a set of documents, keyed by id
    nj,         \* the new_job call in progress (model.py): the pages and sites
                \* it has built and how many of each it has inserted
    now,        \* the clock doublethink.utcnow() reads
    schema      \* the store's databases, tables and indexes (db.py _ensure_db)

vars == <<sites, pages, heldSites, last, log, ns, site, jobs, nj, now, schema>>

----------------------------------------------------------------------------
(* Bounds of the model *)

NumWorkers == 2
MaxSites == 2
MaxUrls == 2
MaxPages == 2
MaxFixed == 3
MaxBrozzle == 1
MaxCalls == 4
MaxNotes == 2

Workers == 1..NumWorkers
SiteIds == 1..MaxSites
Urls == 1..MaxUrls
FixedUrls == 1..MaxFixed

(* brozzler.MIN_PRIORITY and brozzler.MAX_PRIORITY are read at db.py:101 and
   db.py:112; the module that sets them is not among the source files.  No
   statement below depends on their values, only on the range test. *)
MIN_PRIORITY == 0 - 1000000000
MAX_PRIORITY == 1000000000

(* The priorities pages are given in the model: three inside the index range
   and the upper bound itself, which the right-open range leaves out. *)
Priorities == {3, 5, 9, MAX_PRIORITY}

Statuses == {"ACTIVE", "FINISHED"}

----------------------------------------------------------------------------
(* The store: mutation reports and their vetting (db.py) *)

VetKeys == {"replaced", "errors", "skipped", "inserted", "deleted", "unchanged"}

ZeroResult == [k \in VetKeys |-> 0]

Report(k) == [ZeroResult EXCEPT ![k] = 1]

(* An expectation is a fixed count or a list of acceptable counts. *)
Exactly(n) == [isList |-> FALSE, val |-> n, vals |-> {}]
OneOf(S) == [isList |-> TRUE, val |-> 0, vals |-> S]

(* _vet_result(result, kwargs): TRUE when no UnexpectedDbResult is raised.
   kwargs is a function from some of the keys to expectations. *)
_vet_resultNamedKeysOnly(result, kwargs) ==
    \A k \in DOMAIN kwargs :
        IF kwargs[k].isList
        THEN result[k] \in kwargs[k].vals
        ELSE result[k] = kwargs[k].val

_vet_result(result, kwargs) ==
    \A k \in VetKeys :
        LET expected == IF k \in DOMAIN kwargs THEN kwargs[k] ELSE Exactly(0)
        IN  IF expected.isList
            THEN result[k] \in expected.vals
            ELSE result[k] = expected.val

(* table.insert(doc): a document whose primary key is taken is not inserted
   and is reported as an error. *)
InsertNoConflictCheck(tbl, doc) ==
    [tbl |-> tbl \cup {doc}, result |-> Report("inserted")]

Insert(tbl, doc) ==
    IF \E d \in tbl : d.id = doc.id
    THEN [tbl |-> tbl, result |-> Report("errors")]
    ELSE [tbl |-> tbl \cup {doc}, result |-> Report("inserted")]

(* The document d with the fields of `fields` written over it. *)
Merged(d, fields) ==
    [k \in (DOMAIN d) \cup (DOMAIN fields) |->
        IF k \in DOMAIN fields THEN fields[k] ELSE d[k]]

(* table.get(id).update(fields) *)
GetUpdate(tbl, id, fields) ==
    IF ~ \E d \in tbl : d.id = id
    THEN [tbl |-> tbl, result |-> Report("skipped")]
    ELSE LET d == CHOOSE x \in tbl : x.id = id
         IN  IF Merged(d, fields) = d
             THEN [tbl |-> tbl, result |-> Report("unchanged")]
             ELSE [tbl |-> (tbl \ {d}) \cup {Merged(d, fields)},
                   result |-> Report("replaced")]

(* selection.update(fields, return_changes=True) on a selection of at most
   one document (limit(1)). *)
SelectionUpdateNotPersisted(tbl, sel, fields) ==
    IF sel = {}
    THEN [tbl |-> tbl, result |-> ZeroResult, changes |-> {}]
    ELSE LET d == CHOOSE x \in sel : TRUE
         IN  [tbl |-> tbl, result |-> Report("replaced"),
              changes |-> {Merged(d, fields)}]

SelectionUpdate(tbl, sel, fields) ==
    IF sel = {}
    THEN [tbl |-> tbl, result |-> ZeroResult, changes |-> {}]
    ELSE LET d == CHOOSE x \in sel : TRUE
         IN  IF Merged(d, fields) = d
             THEN [tbl |-> tbl, result |-> Report("unchanged"), changes |-> {}]
             ELSE [tbl |-> (tbl \ {d}) \cup {Merged(d, fields)},
                   result |-> Report("replaced"),
                   changes |-> {Merged(d, fields)}]

NoArg == <<>>

Call(op, arg, out, val) == [op |-> op, arg |-> arg, out |-> out, val |-> val]

----------------------------------------------------------------------------
(* Sites: db.py new_site, update_site, claim_site *)

SiteDoc(id, claimed, status) == [id |-> id, claimed |-> claimed, status |-> status]

SiteIdsOf(tbl) == {d.id : d \in tbl}

HeldBy(h, s) == {w \in Workers : s \in h[w]}

(* new_site(site): insert; the store generates the key. *)
db_new_site(st) ==
    \E id \in SiteIds \ SiteIdsOf(sites) :
        LET doc == SiteDoc(id, FALSE, st)
            r == Insert(sites, doc)
        IN  /\ IF _vet_result(r.result, [inserted |-> Exactly(1)])
               THEN /\ sites' = r.tbl
                    /\ last' = Call("new_site", NoArg, "ok", {doc})
               ELSE /\ sites' = r.tbl
                    /\ last' = Call("new_site", NoArg, "UnexpectedDbResult", {})
            /\ UNCHANGED <<pages, heldSites, log, ns, site, jobs, nj, now, schema>>

(* update_site(site) by the worker that holds the Site: the worker's copy,
   with the claimed flag and the status it chose, written over the stored
   document.  Writing claimed=false gives the Site back. *)
update_site(w, s, c, st) ==
    /\ s \in heldSites[w]
    /\ LET r == GetUpdate(sites, s, SiteDoc(s, c, st))
       IN  IF _vet_result(r.result, [replaced |-> Exactly(1)])
           THEN /\ sites' = r.tbl
                /\ heldSites' = [heldSites EXCEPT ![w] = IF c THEN @ ELSE @ \ {s}]
                /\ last' = Call("update_site", <<s>>, "ok", {})
           ELSE /\ sites' = r.tbl
                /\ heldSites' = heldSites
                /\ last' = Call("update_site", <<s>>, "UnexpectedDbResult", {})
    /\ UNCHANGED <<pages, log, ns, site, jobs, nj, now, schema>>

(* filter({"claimed": False, "status": "ACTIVE"}) *)
ClaimSiteFilterAnyStatus(tbl) == {d \in tbl : d.claimed = FALSE}

ClaimSiteFilter(tbl) == {d \in tbl : d.claimed = FALSE /\ d.status = "ACTIVE"}

(* limit(1): no order is asked for, so any one document of the selection *)
Limit1(sel) == IF sel = {} THEN {{}} ELSE {{d} : d \in sel}

(* claim_site() *)
claim_site(w) ==
    /\ \E sel \in Limit1(ClaimSiteFilter(sites)) :
          LET r == SelectionUpdate(sites, sel, [claimed |-> TRUE])
          IN  IF ~ _vet_result(r.result, [replaced |-> OneOf({0, 1})])
              THEN /\ sites' = r.tbl
                   /\ heldSites' = heldSites
                   /\ last' = Call("claim_site", NoArg, "UnexpectedDbResult", {})
              ELSE IF r.result["replaced"] = 1
              THEN /\ sites' = r.tbl
                   /\ heldSites' = [heldSites EXCEPT
                                      ![w] = @ \cup {d.id : d \in r.changes}]
                   /\ last' = Call("claim_site", NoArg, "ok", r.changes)
              ELSE /\ sites' = r.tbl
                   /\ heldSites' = heldSites
                   /\ last' = Call("claim_site", NoArg, "NothingToClaim", {})
    /\ UNCHANGED <<pages, log, ns, site, jobs, nj, now, schema>>

NoCall == Call("none", NoArg, "none", {})

(* The empty string as a url; no Site object is looked at. *)
EmptyUrl == [scheme |-> "", authority |-> "", path |-> <<>>, query |-> ""]

NoSite == [seed |-> EmptyUrl, scope |-> [k \in {} |-> 0], noted |-> {}]

(* No new_job call is in progress. *)
NoNewJob == [pc |-> "idle", conf |-> [k \in {} |-> 0], job |-> "",
             pages |-> <<>>, sites |-> <<>>, done |-> 0]

(* The store as _ensure_db leaves it: the database, its two tables and the
   index of the pages table. *)
SchemaReady ==
    [dbs |-> {"brozzler"},
     tables |-> {<<"brozzler", "sites">>, <<"brozzler", "pages">>},
     indexes |-> {<<"brozzler", "pages", "priority_by_site">>},
     pc |-> "idle", db |-> "brozzler",
     before |-> [dbs |-> {}, tables |-> {}, indexes |-> {}]]

(* No new_site call is in progress. *)
NoNewSite == [pc |-> "idle", site |-> 0, seed |-> <<0, "">>, failed |-> {}]

InitSites ==
    /\ sites = {}
    /\ pages = {}
    /\ heldSites = [w \in Workers |-> {}]
    /\ last = NoCall
    /\ log = <<>>
    /\ ns = NoNewSite
    /\ jobs = {}
    /\ nj = NoNewJob
    /\ now = 1
    /\ schema = SchemaReady
    /\ site = NoSite

NextSites ==
    \/ \E st \in Statuses : db_new_site(st)
    \/ \E w \in Workers, s \in SiteIds, c \in BOOLEAN, st \in Statuses :
          update_site(w, s, c, st)
    \/ \E w \in Workers : claim_site(w)

SpecSites == InitSites /\ [][NextSites]_vars

----------------------------------------------------------------------------
(* C2: under any interleaving of claim_site calls, with a Site's claimed flag
   cleared only by its holder through update_site, no Site is held by two
   workers at once, and a successful claim_site never returns a Site that a
   worker still holds. *)
C2_NoSiteHeldTwice ==
    [][/\ \A w1, w2 \in Workers :
            w1 # w2 => heldSites'[w1] \cap heldSites'[w2] = {}
       /\ (last'.op = "claim_site" /\ last'.out = "ok") =>
            \A d \in last'.val : HeldBy(heldSites, d.id) = {}]_vars

(* Two workers hold one Site each, both got by claim_site. *)
C2_Witness ==
    /\ last.op = "claim_site" /\ last.out = "ok"
    /\ \E w1, w2 \in Workers :
          w1 # w2 /\ heldSites[w1] # {} /\ heldSites[w2] # {}

(* C3: claim_site succeeds exactly when some Site is unclaimed and ACTIVE; it
   then returns the post-update document of one such Site and changes only
   that Site's claimed flag; otherwise it signals NothingToClaim and leaves
   the store unchanged. *)
C3_ClaimSite ==
    [][last'.op = "claim_site" =>
        IF \E d \in sites : d.claimed = FALSE /\ d.status = "ACTIVE"
        THEN /\ last'.out = "ok"
             /\ \E d \in sites :
                   /\ d.claimed = FALSE /\ d.status = "ACTIVE"
                   /\ last'.val = {SiteDoc(d.id, TRUE, d.status)}
                   /\ sites' = (sites \ {d}) \cup {SiteDoc(d.id, TRUE, d.status)}
        ELSE /\ last'.out = "NothingToClaim"
             /\ last'.val = {}
             /\ sites' = sites]_vars

(* A claim_site call has returned an ACTIVE Site while another Site, unclaimed
   but not ACTIVE, stays unclaimed. *)
C3_Witness ==
    /\ last.op = "claim_site" /\ last.out = "ok"
    /\ \E d \in sites : d.claimed = FALSE /\ d.status = "FINISHED"

----------------------------------------------------------------------------
(* Pages: model.py Page identity and defaults *)

(* digest_this = "site_id:%s,url:%s" % (site_id, url) *)
DigestThis(site_id, url) == <<"site_id:", site_id, ",url:", url>>

(* hashlib.sha1(...).hexdigest(), taken as free of collisions: the digest
   stands for the text digested. *)
Sha1Hex(text) == [sha1 |-> text]

(* Page.compute_id(site_id, url) *)
compute_id(site_id, url) == Sha1Hex(DigestThis(site_id, url))

(* self.<key> = value if <key> not in self *)
SetDefault(doc, key, value) ==
    IF key \in DOMAIN doc THEN doc ELSE doc @@ (key :> value)

(* A url as text is the sequence of its pieces, "/" and "#" and "?" being
   pieces of their own; the urls of the stores above are numbers, which
   stand for texts that are told apart and never looked into. *)
RECURSIVE Count(_, _)
Count(text, piece) ==
    IF text = <<>> THEN 0
    ELSE (IF Head(text) = piece THEN 1 ELSE 0) + Count(Tail(text), piece)

RECURSIVE UpTo(_, _)
UpTo(text, piece) ==
    IF text = <<>> \/ Head(text) = piece THEN <<>>
    ELSE <<Head(text)>> \o UpTo(Tail(text), piece)

(* urlcanon.semantic(url), for what bears on the count of "/": the fragment
   is dropped with its hash sign, and a url that ends with its authority
   gets the path "/". *)
semantic(url) ==
    LET u == UpTo(url, "#")
        head == UpTo(u, "?")
        rest == SubSeq(u, Len(head) + 1, Len(u))
    IN  IF Count(head, "/") = 2 THEN head \o <<"/">> \o rest ELSE u

(* Page._calc_priority(); canon_url() is str(urlcanon.semantic(self.url)).
   None, which ReQL orders before every number, is the number below
   MIN_PRIORITY. *)
_calc_priorityRawUrl(page) ==
    LET max(a, b) == IF a >= b THEN a ELSE b
    IN  IF page.url = <<>> THEN MIN_PRIORITY - 1
        ELSE max(0, 10 - page.hops_from_seed) + max(0, 6 - Count(page.url, "/"))

_calc_priority(page) ==
    LET max(a, b) == IF a >= b THEN a ELSE b
    IN  IF page.url = <<>> THEN MIN_PRIORITY - 1
        ELSE max(0, 10 - page.hops_from_seed)
                + max(0, 6 - Count(semantic(page.url), "/"))

(* Page.populate_defaults, for the fields the store's index and key use and
   the fields they are computed from.  A document is a function from the
   keys it has to their values. *)
PagePopulateDefaults(doc) ==
    LET p0 == SetDefault(doc, "hops_from_seed", 0)
        p1 == SetDefault(p0, "brozzle_count", 0)
        p2 == SetDefault(p1, "claimed", FALSE)
        p3 == IF "priority" \in DOMAIN p2 THEN p2
              ELSE p2 @@ ("priority" :> _calc_priority(p2))
    IN  SetDefault(p3, "id", compute_id(p3.site_id, p3.url))

(* Page(kwargs): construction runs the default-population pass. *)
Page(kwargs) == PagePopulateDefaults(kwargs)

PageIdsOf(tbl) == {d.id : d \in tbl}

----------------------------------------------------------------------------
(* Pages: the priority_by_site index (db.py:45) and its range scans *)

(* ReQL orders false before true. *)
BoolOrd(b) == IF b THEN 1 ELSE 0

(* [site_id, claimed, brozzle_count, priority] *)
IndexKey(d) == <<d.site_id, BoolOrd(d.claimed), d.brozzle_count, d.priority>>

(* ReQL compares arrays element by element. *)
RECURSIVE LexLess(_, _)
LexLess(a, b) ==
    IF a = <<>> THEN b # <<>>
    ELSE IF b = <<>> THEN FALSE
    ELSE IF Head(a) < Head(b) THEN TRUE
    ELSE IF Head(a) > Head(b) THEN FALSE
    ELSE LexLess(Tail(a), Tail(b))

(* between(lo, hi, index="priority_by_site"): left bound closed, right open *)
Between(tbl, lo, hi) ==
    {d \in tbl : ~ LexLess(IndexKey(d), lo) /\ LexLess(IndexKey(d), hi)}

(* order_by(index=desc("priority_by_site")).limit(1): a document with the
   greatest key; the order among equal keys is the store's. *)
TopByIndexUnordered(sel) ==
    IF sel = {} THEN {{}} ELSE {{d} : d \in sel}

TopByIndex(sel) ==
    IF sel = {} THEN {{}}
    ELSE {{d} : d \in {x \in sel :
                        \A y \in sel : ~ LexLess(IndexKey(x), IndexKey(y))}}

(* The range claim_page scans (db.py:101). *)
ClaimPageRangeThroughClaimed(tbl, site_id) ==
    Between(tbl, <<site_id, BoolOrd(FALSE), 0, MIN_PRIORITY>>,
                 <<site_id, BoolOrd(TRUE), 0, MAX_PRIORITY>>)

ClaimPageRange(tbl, site_id) ==
    Between(tbl, <<site_id, BoolOrd(FALSE), 0, MIN_PRIORITY>>,
                 <<site_id, BoolOrd(FALSE), 0, MAX_PRIORITY>>)

(* The range has_outstanding_pages scans (db.py:112). *)
OutstandingRange(tbl, site_id) ==
    Between(tbl, <<site_id, BoolOrd(FALSE), 0, MIN_PRIORITY>>,
                 <<site_id, BoolOrd(TRUE), 0, MAX_PRIORITY>>)

----------------------------------------------------------------------------
(* Pages: db.py new_page, update_page, claim_page, has_outstanding_pages,
   get_page *)

(* new_page(page), for a page built from a site id, a url and a priority *)
new_page(site_id, url, priority) ==
    LET page == Page([site_id |-> site_id, url |-> url, priority |-> priority])
        r == Insert(pages, page)
    IN  /\ Cardinality(pages) < MaxPages \/ page.id \in PageIdsOf(pages)
        /\ IF _vet_result(r.result, [inserted |-> Exactly(1)])
           THEN /\ pages' = r.tbl
                /\ last' = Call("new_page", <<page.id>>, "ok", {})
           ELSE /\ pages' = r.tbl
                /\ last' = Call("new_page", <<page.id>>, "UnexpectedDbResult", {})
        /\ UNCHANGED <<sites, heldSites, log, ns, site, jobs, nj, now, schema>>

(* The page objects a caller passes to update_page: a stored page as loaded,
   with the claimed flag and the brozzle count the caller set, or a page that
   was never stored. *)
UpdatablePages ==
    {Merged(Page(d), [claimed |-> c, brozzle_count |-> n]) :
        d \in pages, c \in BOOLEAN, n \in 0..MaxBrozzle}
    \cup {Page([site_id |-> s, url |-> u, priority |-> 5]) : s \in SiteIds, u \in Urls}

(* update_page(page); `last` keeps the store's report beside the page id *)
update_pageMustReplace(page) ==
    LET r == GetUpdate(pages, page.id, page)
    IN  /\ IF _vet_result(r.result, [replaced |-> Exactly(1)])
           THEN /\ pages' = r.tbl
                /\ last' = Call("update_page", <<page.id, r.result>>, "ok", {})
           ELSE /\ pages' = r.tbl
                /\ last' = Call("update_page", <<page.id, r.result>>,
                                "UnexpectedDbResult", {})
        /\ UNCHANGED <<sites, heldSites, log, ns, site, jobs, nj, now, schema>>

update_page(page) ==
    LET r == GetUpdate(pages, page.id, page)
    IN  /\ IF _vet_result(r.result, [replaced |-> OneOf({0, 1}),
                                     unchanged |-> OneOf({0, 1})])
           THEN /\ pages' = r.tbl
                /\ last' = Call("update_page", <<page.id, r.result>>, "ok", {})
           ELSE /\ pages' = r.tbl
                /\ last' = Call("update_page", <<page.id, r.result>>,
                                "UnexpectedDbResult", {})
        /\ UNCHANGED <<sites, heldSites, log, ns, site, jobs, nj, now, schema>>

(* The outcome of claim_page(site) and the table it leaves, for the document
   `sel` that limit(1) kept. *)
ClaimPageQuery(tbl, sel) ==
    LET r == SelectionUpdate(tbl, sel, [claimed |-> TRUE])
    IN  IF ~ _vet_result(r.result, [replaced |-> OneOf({0, 1})])
        THEN [tbl |-> r.tbl, out |-> "UnexpectedDbResult", val |-> {}]
        ELSE IF r.result["replaced"] = 1
        THEN [tbl |-> r.tbl, out |-> "ok", val |-> {Page(d) : d \in r.changes}]
        ELSE [tbl |-> r.tbl, out |-> "NothingToClaim", val |-> {}]

(* claim_page(site): the query and what the caller gets *)
ClaimPageStep(site_id) ==
    \E sel \in TopByIndex(ClaimPageRange(pages, site_id)) :
        LET q == ClaimPageQuery(pages, sel)
        IN  /\ pages' = q.tbl
            /\ last' = Call("claim_page", <<site_id>>, q.out, q.val)

claim_page(site_id) ==
    /\ ClaimPageStep(site_id)
    /\ UNCHANGED <<sites, heldSites, log, ns, site, jobs, nj, now, schema>>

(* has_outstanding_pages(site): limit(1) of the range, then len(...) > 0 *)
HasOutstandingPages(tbl, site_id) == OutstandingRange(tbl, site_id) # {}

has_outstanding_pages(site_id) ==
    /\ last' = Call("has_outstanding_pages", <<site_id>>,
                    IF HasOutstandingPages(pages, site_id) THEN "True" ELSE "False",
                    {})
    /\ UNCHANGED <<sites, pages, heldSites, log, ns, site, jobs, nj, now, schema>>

(* get_page(page): the stored page, loaded, or None *)
get_page(id) ==
    /\ last' = Call("get_page", <<id>>,
                    IF id \in PageIdsOf(pages) THEN "ok" ELSE "None",
                    {Page(d) : d \in {x \in pages : x.id = id}})
    /\ UNCHANGED <<sites, pages, heldSites, log, ns, site, jobs, nj, now, schema>>

InitPages ==
    /\ sites = {}
    /\ pages = {}
    /\ heldSites = [w \in Workers |-> {}]
    /\ last = NoCall
    /\ log = <<>>
    /\ ns = NoNewSite
    /\ jobs = {}
    /\ nj = NoNewJob
    /\ now = 1
    /\ schema = SchemaReady
    /\ site = NoSite

NextPages ==
    \/ \E s \in SiteIds, u \in Urls, p \in Priorities : new_page(s, u, p)
    \/ \E page \in UpdatablePages : update_page(page)
    \/ \E s \in SiteIds : claim_page(s)
    \/ \E s \in SiteIds : has_outstanding_pages(s)
    \/ \E s \in SiteIds, u \in Urls : get_page(compute_id(s, u))

SpecPages == InitPages /\ [][NextPages]_vars

----------------------------------------------------------------------------
(* Workers calling claim_page over a fixed set of pages: no page is inserted
   or updated meanwhile.  The store serves the calls one at a time; log keeps
   them in that order. *)

(* The fixed set: the pages of `keys` (site id, url), all unclaimed, with
   the priorities and brozzle counts f gives them. *)
FixedPages(keys, f) ==
    {Page([site_id |-> k[1], url |-> k[2], priority |-> f[k][1],
           brozzle_count |-> f[k][2]]) : k \in keys}

(* One worker's claim_page(site) call *)
claim_page_call(site_id) ==
    /\ Len(log) < MaxCalls
    /\ ClaimPageStep(site_id)
    /\ log' = Append(log, last')
    /\ UNCHANGED <<sites, heldSites, ns, site, jobs, nj, now, schema>>

InitClaim ==
    /\ sites = {}
    /\ \E keys \in SUBSET (SiteIds \X FixedUrls) :
          /\ Cardinality(keys) <= MaxFixed
          /\ \E f \in [keys -> Priorities \X (0..MaxBrozzle)] :
                pages = FixedPages(keys, f)
    /\ heldSites = [w \in Workers |-> {}]
    /\ last = NoCall
    /\ log = <<>>
    /\ ns = NoNewSite
    /\ jobs = {}
    /\ nj = NoNewJob
    /\ now = 1
    /\ schema = SchemaReady
    /\ site = NoSite

NextClaim == \E s \in SiteIds : claim_page_call(s)

SpecClaim == InitClaim /\ [][NextClaim]_vars

----------------------------------------------------------------------------
(* Statements about claim_page over a fixed set of pages *)

(* A page claim_page can take: unclaimed, never brozzled, and with a priority
   from MIN_PRIORITY up to, not including, MAX_PRIORITY. *)
Claimable(d) ==
    /\ d.claimed = FALSE
    /\ d.brozzle_count = 0
    /\ MIN_PRIORITY <= d.priority
    /\ d.priority < MAX_PRIORITY

(* The fixed set as it was before the first call: every page unclaimed. *)
Pages0 == {Merged(d, [claimed |-> FALSE]) : d \in pages}

Unclaimed0(s) == {d \in Pages0 : d.site_id = s}

Claimable0(s) == {d \in Pages0 : d.site_id = s /\ Claimable(d)}

CallsOn(s) == {i \in 1..Len(log) : log[i].arg[1] = s}

ReturnedBefore(i) == UNION {{d.id : d \in log[j].val} : j \in 1..(i - 1)}

(* With at least two calls on site s, whose pages of the set `only` are one
   page: exactly one call returned that page, as claimed, every other call
   ended with NothingToClaim, and the stored page reads claimed=true. *)
OneWinner(s, only) ==
    (Cardinality(only) = 1 /\ Cardinality(CallsOn(s)) >= 2) =>
        \E p \in only :
            /\ \E i \in CallsOn(s) :
                  /\ log[i].out = "ok"
                  /\ log[i].val = {Merged(p, [claimed |-> TRUE])}
                  /\ \A j \in CallsOn(s) \ {i} :
                        log[j].out = "NothingToClaim" /\ log[j].val = {}
            /\ \A d \in pages : d.id = p.id => Page(d).claimed = TRUE

(* C1 (as amended): when N >= 2 workers call claim_page(site) on a site that
   has exactly one unclaimed page with brozzle_count = 0 and a priority in
   [MIN_PRIORITY, MAX_PRIORITY), exactly one call returns that page and each
   other call ends with NothingToClaim; afterwards the page reads
   claimed=true. *)
C1_OneWinnerAmongClaimable == \A s \in SiteIds : OneWinner(s, Claimable0(s))

(* Two calls have been made on a site whose only claimable page sits beside
   an unclaimed page that is not claimable. *)
C1_Witness ==
    \E s \in SiteIds :
        /\ Cardinality(Claimable0(s)) = 1
        /\ Cardinality(Unclaimed0(s)) = 2
        /\ Cardinality(CallsOn(s)) >= 2

(* C1 as stated: the site has exactly one unclaimed page, whatever its
   brozzle_count and priority. *)
C1_Original == \A s \in SiteIds : OneWinner(s, Unclaimed0(s))

(* Every successful call on a site returned a page of that site out of
   `among`, not returned before, whose priority no page of `among` still to be
   returned exceeds; and the priorities returned for a site never go up. *)
TopFirst(among(_)) ==
    /\ \A i \in 1..Len(log) :
          log[i].out = "ok" =>
            \E d \in log[i].val :
                /\ log[i].val = {d}
                /\ d.site_id = log[i].arg[1]
                /\ d.claimed = TRUE
                /\ Merged(d, [claimed |-> FALSE]) \in among(d.site_id)
                /\ d.id \notin ReturnedBefore(i)
                /\ \A e \in among(log[i].arg[1]) :
                      e.id \notin ReturnedBefore(i) => e.priority <= d.priority
    /\ \A i, j \in 1..Len(log) :
          (i < j /\ log[i].out = "ok" /\ log[j].out = "ok"
                 /\ log[i].arg = log[j].arg) =>
            \A d \in log[i].val, e \in log[j].val : e.priority <= d.priority

(* C4 (as amended): claim_page(site) returns, among the pages of the site that
   are unclaimed, have brozzle_count = 0 and a priority in
   [MIN_PRIORITY, MAX_PRIORITY), one with the highest priority, and never a
   page of another site; repeated calls over a fixed set return them in
   non-increasing priority order. *)
C4_HighestClaimableFirst == TopFirst(Claimable0)

(* Pages of priorities 5, 9 and 3 of one site came back as 9, 5, 3. *)
C4_Witness ==
    /\ Len(log) >= 3
    /\ \E s \in SiteIds :
          /\ {d.priority : d \in Claimable0(s)} = {5, 9, 3}
          /\ \A i \in 1..3 : log[i].arg = <<s>> /\ log[i].out = "ok"
          /\ \E d \in log[1].val : d.priority = 9
          /\ \E d \in log[2].val : d.priority = 5
          /\ \E d \in log[3].val : d.priority = 3

(* C4 as stated: the highest priority among all unclaimed pages of the site *)
C4_Original == TopFirst(Unclaimed0)

----------------------------------------------------------------------------
(* Statements about the page operations under any sequence of calls *)

LastSite == last.arg[1]

(* The latest call was claim_page: it ended with NothingToClaim and the site
   has no page satisfying `takes`, or it returned a stored page of the site,
   now claimed, that satisfied `takes` before. *)
ClaimedOrNothing(takes(_)) ==
    last.op = "claim_page" =>
        \/ /\ last.out = "NothingToClaim"
           /\ ~ \E d \in pages : d.site_id = LastSite /\ takes(d)
        \/ /\ last.out = "ok"
           /\ \E d \in pages :
                 /\ last.val = {Page(d)}
                 /\ d.site_id = LastSite
                 /\ d.claimed = TRUE
                 /\ takes(Merged(d, [claimed |-> FALSE]))

(* C5 (as amended): claim_page(site) signals NothingToClaim exactly when the
   site has no page with claimed=false, brozzle_count = 0 and a priority in
   [MIN_PRIORITY, MAX_PRIORITY); whenever it has one, the call claims and
   returns a page. *)
C5_NothingIffNoneClaimable == ClaimedOrNothing(Claimable)

(* claim_page has signalled NothingToClaim on a site that has an unclaimed
   page with a brozzle count above zero. *)
C5_Witness ==
    /\ last.op = "claim_page" /\ last.out = "NothingToClaim"
    /\ \E d \in pages :
          d.site_id = LastSite /\ d.claimed = FALSE /\ d.brozzle_count > 0

IsUnclaimed(d) == d.claimed = FALSE

(* C5 as stated: NothingToClaim exactly when the site has no unclaimed page *)
C5_Original == ClaimedOrNothing(IsUnclaimed)

(* C6: has_outstanding_pages(site) returns true if and only if some page of
   the site has claimed=false. *)
C6_OutstandingIffUnclaimed ==
    last.op = "has_outstanding_pages" =>
        (last.out = "True" <=>
            \E d \in pages : d.site_id = LastSite /\ d.claimed = FALSE)

(* C8: the pages table holds at most one record per (site_id, url), every
   stored page has the id computed from its site_id and url and keeps it when
   loaded, and a new_page for a (site_id, url) already stored ends with
   UnexpectedDbResult and leaves the table as it was. *)
C8_OneRecordPerSiteUrl ==
    [][/\ \A d, e \in pages' :
            (d.site_id = e.site_id /\ d.url = e.url) => d = e
       /\ \A d \in pages' :
            d.id = compute_id(d.site_id, d.url) /\ Page(d).id = d.id
       /\ (last'.op = "new_page" /\ last'.arg[1] \in PageIdsOf(pages)) =>
            /\ last'.out = "UnexpectedDbResult"
            /\ pages' = pages
            /\ Cardinality(pages') = Cardinality(pages)]_vars

(* new_page was refused for a page whose stored record has since been claimed
   and brozzled, so that it differs from the one offered. *)
C8_Witness ==
    /\ last.op = "new_page" /\ last.out = "UnexpectedDbResult"
    /\ \E d \in pages :
          d.id = last.arg[1] /\ d.claimed = TRUE /\ d.brozzle_count > 0

----------------------------------------------------------------------------
(* model.py: new_seed_page and new_site, run while workers claim *)

(* A seed is a url and its fragment part ("" when it has none). *)
Seeds == Urls \X {"", "#f"}

(* urlcanon.canon.remove_fragment(url) *)
remove_fragment(url) == <<url[1], "">>

(* str(url) of a url without fragment *)
UrlStr(url) == url[1]

SEED_PRIORITY == 1000

(* new_seed_page(frontier, site), for the fields the store's key and index
   use *)
new_seed_page(site_id, seed) ==
    Page([url |-> UrlStr(remove_fragment(seed)), site_id |-> site_id,
          priority |-> SEED_PRIORITY])

(* Document.save(): the document is written over the stored one of its key,
   or inserted when the key is not stored. *)
Save(tbl, doc) ==
    IF doc.id \in {d.id : d \in tbl}
    THEN GetUpdate(tbl, doc.id, doc).tbl
    ELSE Insert(tbl, doc).tbl

(* new_site(frontier, site) up to the try block: site.id = site.id or uuid4.
   `last` is set when the call ends. *)
NewSiteBeginSiteFirst(id, seed) ==
    /\ ns.pc = "idle"
    /\ id \notin SiteIdsOf(sites)
    /\ ns' = [ns EXCEPT !.pc = "try", !.site = id, !.seed = seed]
    /\ sites' = Save(sites, SiteDoc(id, FALSE, "ACTIVE"))
    /\ UNCHANGED <<pages, heldSites, last, log, site, jobs, nj, now, schema>>

NewSiteBegin(id, seed) ==
    /\ ns.pc = "idle"
    /\ id \notin SiteIdsOf(sites)
    /\ ns' = [ns EXCEPT !.pc = "try", !.site = id, !.seed = seed]
    /\ UNCHANGED <<sites, pages, heldSites, last, log, site, jobs, nj, now, schema>>

(* try: page = new_seed_page(frontier, site); page.save() *)
NewSiteSavePage ==
    /\ ns.pc = "try"
    /\ pages' = Save(pages, new_seed_page(ns.site, ns.seed))
    /\ ns' = [ns EXCEPT !.pc = "finally", !.failed = @ \ {ns.site}]
    /\ UNCHANGED <<sites, heldSites, last, log, site, jobs, nj, now, schema>>

(* new_seed_page or page.save() raises: control goes to the finally block
   with no page saved. *)
NewSiteTryRaises ==
    /\ ns.pc = "try"
    /\ ns' = [ns EXCEPT !.pc = "finally", !.failed = @ \cup {ns.site}]
    /\ UNCHANGED <<sites, pages, heldSites, last, log, site, jobs, nj, now, schema>>

(* finally: site.save(); then the call returns, or re-raises what the try
   block raised. *)
NewSiteFinally ==
    /\ ns.pc = "finally"
    /\ sites' = Save(sites, SiteDoc(ns.site, FALSE, "ACTIVE"))
    /\ ns' = [NoNewSite EXCEPT !.failed = ns.failed]
    /\ last' = Call("new_site", <<ns.site>>,
                    IF ns.site \in ns.failed THEN "raised" ELSE "ok", {})
    /\ UNCHANGED <<pages, heldSites, log, site, jobs, nj, now, schema>>

(* finally: site.save() raises; the Site is not stored. *)
NewSiteFinallyRaises ==
    /\ ns.pc = "finally"
    /\ ns' = [NoNewSite EXCEPT !.failed = ns.failed]
    /\ last' = Call("new_site", <<ns.site>>, "raised", {})
    /\ UNCHANGED <<sites, pages, heldSites, log, site, jobs, nj, now, schema>>

InitNewSite ==
    /\ sites = {}
    /\ pages = {}
    /\ heldSites = [w \in Workers |-> {}]
    /\ last = NoCall
    /\ log = <<>>
    /\ ns = NoNewSite
    /\ jobs = {}
    /\ nj = NoNewJob
    /\ now = 1
    /\ schema = SchemaReady
    /\ site = NoSite

NextNewSite ==
    \/ \E id \in SiteIds, seed \in Seeds : NewSiteBegin(id, seed)
    \/ NewSiteSavePage
    \/ NewSiteTryRaises
    \/ NewSiteFinally
    \/ NewSiteFinallyRaises
    \/ \E w \in Workers : claim_site(w)
    \/ \E w \in Workers : \E s \in heldSites[w] : claim_page(s)

SpecNewSite == InitNewSite /\ [][NextNewSite]_vars

HasSeedPage(site_id) ==
    \E p \in pages : p.site_id = site_id /\ p.priority = SEED_PRIORITY

(* C7 (as amended): in new_site(frontier, site), in every execution in which
   new_seed_page and page.save() do not raise, at every moment the Site row is
   visible in the store its seed Page is already persisted, so no worker can
   claim that Site and find no Page for it. *)
C7_SeedPageBeforeSite ==
    \A d \in sites : d.id \notin ns.failed => HasSeedPage(d.id)

(* A worker has claimed a Site made by new_site and has been given its seed
   page by claim_page. *)
C7_Witness ==
    /\ last.op = "claim_page" /\ last.out = "ok"
    /\ \E d \in sites :
          /\ d.id = LastSite /\ d.claimed = TRUE /\ d.id \notin ns.failed
          /\ \E w \in Workers : d.id \in heldSites[w]

(* C7 as stated: in every execution, whether or not a step raises, a Site row
   visible with claimed=false has its seed Page persisted. *)
C7_Original ==
    \A d \in sites : d.claimed = FALSE => HasSeedPage(d.id)

----------------------------------------------------------------------------
(* model.py: Site scope, populate_defaults, _accept_ssurt_if_not_redundant,
   note_seed_redirect *)

Schemes == {"http", "https"}
Hosts == {"a.com", "b.com"}

(* Paths, as the characters after the leading "/" *)
Paths == {<<>>, <<"x">>, <<"x", "y">>}

Queries == {"", "?q"}

(* A url: scheme://authority/path?query; the query on the root path only *)
ScopeUrls ==
    {u \in [scheme : Schemes, authority : Hosts, path : Paths, query : Queries] :
        u.query = "" \/ u.path = <<>>}

(* brozzler.site_surt_canon(url): the semantic canonical form, and the query
   removed. *)
site_surt_canon(url) == [url EXCEPT !.query = ""]

(* url.ssurt(): the host reversed, "//", the scheme, ":" and the rest, as a
   string of tokens; "com,a,//" is one token, "https:" is one, then "/" and
   the characters of the path. *)
ssurt(url) ==
    <<url.authority, url.scheme, "/">> \o url.path
        \o (IF url.query = "" THEN <<>> ELSE <<url.query>>)

(* str.startswith *)
startswith(str, prefix) ==
    Len(prefix) <= Len(str) /\ SubSeq(str, 1, Len(prefix)) = prefix

SsurtRule(str) == [ssurt |-> str]

DelKey(f, key) == [k \in (DOMAIN f) \ {key} |-> f[k]]

(* Site._accept_ssurt_if_not_redundant(ssurt), on the scope *)
AcceptSsurtAlways(scope, str) ==
    LET sc == SetDefault(scope, "accepts", <<>>)
    IN  [sc EXCEPT !["accepts"] = Append(@, SsurtRule(str))]

_accept_ssurt_if_not_redundant(scope, str) ==
    LET sc == SetDefault(scope, "accepts", <<>>)
        simple_rule_ssurts ==
            {sc["accepts"][i]["ssurt"] :
                i \in {j \in 1..Len(sc["accepts"]) :
                          DOMAIN sc["accepts"][j] = {"ssurt"}}}
    IN  IF ~ \E ss \in simple_rule_ssurts : startswith(str, ss)
        THEN [sc EXCEPT !["accepts"] = Append(@, SsurtRule(str))]
        ELSE sc

(* Site.populate_defaults, for the seed and the scope *)
SitePopulateDefaultsNoSeedRule(s) ==
    LET s1 == SetDefault(s, "scope", [k \in {} |-> 0])
        sc1 == IF "surt" \in DOMAIN s1.scope
               THEN LET sc == SetDefault(s1.scope, "accepts", <<>>)
                    IN  DelKey([sc EXCEPT !["accepts"] =
                                    Append(@, [surt |-> sc["surt"]])], "surt")
               ELSE s1.scope
    IN  [s1 EXCEPT !.scope = sc1]

SitePopulateDefaults(s) ==
    LET s1 == SetDefault(s, "scope", [k \in {} |-> 0])
        sc1 == IF "surt" \in DOMAIN s1.scope
               THEN LET sc == SetDefault(s1.scope, "accepts", <<>>)
                    IN  DelKey([sc EXCEPT !["accepts"] =
                                    Append(@, [surt |-> sc["surt"]])], "surt")
               ELSE s1.scope
        sc2 == IF s1.seed # EmptyUrl
               THEN _accept_ssurt_if_not_redundant(
                        sc1, ssurt(site_surt_canon(s1.seed)))
               ELSE sc1
    IN  [s1 EXCEPT !.scope = sc2]

(* Site.note_seed_redirect(url) *)
NoteSeedRedirectNoWiden(s, url) ==
    [s EXCEPT !.scope = _accept_ssurt_if_not_redundant(
                            s.scope, ssurt(site_surt_canon(url)))]

NoteSeedRedirect(s, url) ==
    LET canon_seed_redirect == site_surt_canon(url)
        canon_seed == site_surt_canon(s.seed)
        sc1 == IF /\ canon_seed_redirect.authority = canon_seed.authority
                  /\ canon_seed_redirect.scheme # canon_seed.scheme
               THEN _accept_ssurt_if_not_redundant(
                        s.scope,
                        ssurt([canon_seed EXCEPT
                                 !.scheme = canon_seed_redirect.scheme]))
               ELSE s.scope
    IN  [s EXCEPT !.scope = _accept_ssurt_if_not_redundant(
                                sc1, ssurt(canon_seed_redirect))]

(* The scopes a Site is built with: none, a legacy surt, a rule with a parent
   condition, a simple rule for the whole host of the seed whatever the
   scheme. *)
InitialScopes(seed) ==
    { [k \in {} |-> 0],
      [surt |-> <<"http://(com,a,)/">>],
      [accepts |-> <<[ssurt |-> <<seed.authority, "https", "/">>,
                      parent_url_regex |-> ".*"]>>],
      [accepts |-> <<[ssurt |-> <<seed.authority>>]>>] }

note_seed_redirect(url) ==
    /\ Cardinality(site.noted) < MaxNotes \/ url \in site.noted
    /\ site' = [NoteSeedRedirect(site, url) EXCEPT !.noted = @ \cup {url}]
    /\ last' = Call("note_seed_redirect", <<url, url \in site.noted>>, "ok", {})
    /\ UNCHANGED <<sites, pages, heldSites, log, ns, jobs, nj, now, schema>>

(* The Site is stored and loaded again: construction runs populate_defaults. *)
site_reload ==
    /\ site' = SitePopulateDefaults(site)
    /\ last' = Call("populate_defaults", NoArg, "ok", {})
    /\ UNCHANGED <<sites, pages, heldSites, log, ns, jobs, nj, now, schema>>

InitScope ==
    /\ sites = {}
    /\ pages = {}
    /\ heldSites = [w \in Workers |-> {}]
    /\ last = NoCall
    /\ log = <<>>
    /\ ns = NoNewSite
    /\ jobs = {}
    /\ nj = NoNewJob
    /\ now = 1
    /\ schema = SchemaReady
    /\ \E seed \in {u \in ScopeUrls : u.authority = "a.com"} :
          \E scope \in InitialScopes(seed) :
            site = SitePopulateDefaults([seed |-> seed, scope |-> scope,
                                         noted |-> {}])

NextScope ==
    \/ \E url \in ScopeUrls : note_seed_redirect(url)
    \/ site_reload

SpecScope == InitScope /\ [][NextScope]_vars

----------------------------------------------------------------------------
(* Statements about the scope *)

Accepts(s) == IF "accepts" \in DOMAIN s.scope THEN s.scope["accepts"] ELSE <<>>

SimpleRules(acc) == {i \in 1..Len(acc) : DOMAIN acc[i] = {"ssurt"}}

(* Some simple rule of acc is a prefix of str. *)
Covered(acc, str) ==
    \E i \in SimpleRules(acc) : startswith(str, acc[i]["ssurt"])

(* The redirect target has the seed's authority and another scheme. *)
SchemeChanging(s, url) ==
    /\ site_surt_canon(url).authority = site_surt_canon(s.seed).authority
    /\ site_surt_canon(url).scheme # site_surt_canon(s.seed).scheme

(* The ssurt of the canonical seed under the scheme of url *)
SeedUnder(s, url) ==
    ssurt([site_surt_canon(s.seed) EXCEPT
              !.scheme = site_surt_canon(url).scheme])

RedirectSsurt(url) == ssurt(site_surt_canon(url))

(* C9: note_seed_redirect(url), when the redirect target has the seed's
   authority and a different scheme, leaves scope.accepts with a simple rule
   that is a prefix of the seed's canonical form under the new scheme and a
   simple rule that is a prefix of the canonical redirect target, possibly
   the same rule; the call appends, in this order, a rule for the seed under
   the new scheme when no simple rule covered it, and a rule for the
   canonical redirect target when no simple rule covered it and the seed
   under the new scheme is not a prefix of it; it changes nothing else of
   scope.accepts. *)
C9_RedirectCovered ==
    [][\A url \in ScopeUrls :
          ( /\ last'.op = "note_seed_redirect"
            /\ last'.arg[1] = url
            /\ SchemeChanging(site, url) )
          => LET acc == Accepts(site)
                 seedS == SeedUnder(site, url)
                 redirS == RedirectSsurt(url)
             IN  /\ Covered(Accepts(site'), seedS)
                 /\ Covered(Accepts(site'), redirS)
                 /\ Accepts(site') =
                       acc
                       \o (IF Covered(acc, seedS)
                           THEN <<>> ELSE <<SsurtRule(seedS)>>)
                       \o (IF Covered(acc, redirS) \/ startswith(redirS, seedS)
                           THEN <<>> ELSE <<SsurtRule(redirS)>>)]_vars

(* The seed http://a.com/ has been redirected to https://a.com/x: the accept
   rules are the seed's and the seed's under https, and no more. *)
C9_Witness ==
    LET seed == [scheme |-> "http", authority |-> "a.com",
                 path |-> <<>>, query |-> ""]
        url == [scheme |-> "https", authority |-> "a.com",
                path |-> <<"x">>, query |-> ""]
    IN  /\ last.op = "note_seed_redirect"
        /\ last.arg = <<url, FALSE>>
        /\ site.seed = seed
        /\ Accepts(site) = << SsurtRule(ssurt(seed)),
                              SsurtRule(SeedUnder(site, url)) >>

(* C9 as stated: after such a call scope.accepts holds a rule covering the
   seed under the new scheme and, apart from it, a rule for exactly the
   canonical redirect target (the target not being the seed under the new
   scheme itself). *)
C9_Original ==
    \A url \in ScopeUrls :
       ( /\ last.op = "note_seed_redirect"
         /\ last.arg[1] = url
         /\ SchemeChanging(site, url)
         /\ RedirectSsurt(url) # SeedUnder(site, url) )
       => \E i, j \in SimpleRules(Accepts(site)) :
             /\ i # j
             /\ startswith(SeedUnder(site, url), Accepts(site)[i]["ssurt"])
             /\ Accepts(site)[j] = SsurtRule(RedirectSsurt(url))

(* C10: every step leaves the rules of scope.accepts where they were, adding
   only at the end; a note_seed_redirect call with a URL that was noted
   before adds no rule. *)
C10_AcceptsOnlyGrows ==
    [][ /\ startswith(Accepts(site'), Accepts(site))
        /\ ( last'.op = "note_seed_redirect" /\ last'.arg[2] = TRUE )
              => Accepts(site') = Accepts(site) ]_vars

(* A URL is noted a second time, after the notes have added two rules to the
   one of the seed. *)
C10_Witness ==
    /\ last.op = "note_seed_redirect"
    /\ last.arg[2] = TRUE
    /\ Cardinality(site.noted) = MaxNotes
    /\ Len(Accepts(site)) >= 3
    /\ \A i \in 1..Len(Accepts(site)) : i \in SimpleRules(Accepts(site))

(* The ssurt of the canonical form of the seed *)
SeedSsurt(s) == ssurt(site_surt_canon(s.seed))

(* C11 (as amended): for every Site with a non-empty seed, after
   default-population and after any sequence of note_seed_redirect calls and
   further default-population passes, scope.accepts holds a simple ssurt rule
   that is a prefix of the ssurt of the canonical seed: the rule made from
   the seed, or a simple rule the Site was built with that already covers
   it. *)
C11_SeedCovered ==
    site.seed # EmptyUrl => Covered(Accepts(site), SeedSsurt(site))

(* A Site built with a simple rule for its whole host has noted redirects
   and been populated again; no rule of its scope is the seed's. *)
C11_Witness ==
    /\ site.seed # EmptyUrl
    /\ last.op = "populate_defaults"
    /\ Cardinality(site.noted) = MaxNotes
    /\ Accepts(site)[1] = SsurtRule(<<site.seed.authority>>)
    /\ \A i \in 1..Len(Accepts(site)) :
          Accepts(site)[i] # SsurtRule(SeedSsurt(site))

(* C11 as stated: scope.accepts holds a rule made from the ssurt of the
   canonical seed. *)
C11_Original ==
    site.seed # EmptyUrl =>
        \E i \in 1..Len(Accepts(site)) :
            Accepts(site)[i] = SsurtRule(SeedSsurt(site))

----------------------------------------------------------------------------
(* model.py: Site.accept_reject_or_neither *)

MaxRules == 2
MaxHops == 2

(* The urls offered for a decision, already parsed and canonical: with a
   scheme that is neither http nor https among them. *)
DecideUrls ==
    [scheme : Schemes \cup {"ftp"}, authority : Hosts,
     path : {<<>>, <<"x">>}, query : {""}]

(* re.match of a parent_url_regex: ".*" matches every url, any other regex
   of the model is a host and matches the urls of that host. *)
RegexMatches(regex, url) == regex = ".*" \/ regex = url.authority

(* urlcanon.MatchRule.applies(url, parent_url), for rules made of
   ssurt and parent_url_regex: every condition the rule has must hold, and a
   rule with a parent condition applies to no url without a parent.
   parent is the set of the parent url, empty for None. *)
Applies(rule, url, parent) ==
    /\ "ssurt" \in DOMAIN rule => startswith(ssurt(url), rule["ssurt"])
    /\ "parent_url_regex" \in DOMAIN rule =>
          \E p \in parent : RegexMatches(rule["parent_url_regex"], p)

(* The parent pages: a url, a redirect url or none, and the hops from the
   seed. *)
ParentUrls == {u \in DecideUrls : u.scheme = "http" /\ u.path = <<>>}

ParentPages ==
    [url : ParentUrls, redirect_url : {{}} \cup {{u} : u \in ParentUrls},
     hops_from_seed : 0..MaxHops]

(* try_parent_urls, for parent_page given as a set (empty for None) *)
TryParentUrls(parent_page) ==
    IF parent_page = {} THEN <<>>
    ELSE LET pp == CHOOSE x \in parent_page : TRUE
         IN  <<pp.url>> \o (IF pp.redirect_url = {} THEN <<>>
                            ELSE <<CHOOSE u \in pp.redirect_url : TRUE>>)

(* One rule tried as the loops over try_parent_urls do *)
RuleHits(rule, url, try_parent_urls) ==
    IF try_parent_urls # <<>>
    THEN \E i \in 1..Len(try_parent_urls) :
            Applies(rule, url, {try_parent_urls[i]})
    ELSE Applies(rule, url, {})

(* for rule in rules: ... return: the index of the first rule that hits, 0
   when the loop runs to its end *)
RECURSIVE FirstHit(_, _, _, _)
FirstHit(rules, i, url, try_parent_urls) ==
    IF i > Len(rules) THEN 0
    ELSE IF RuleHits(rules[i], url, try_parent_urls) THEN i
    ELSE FirstHit(rules, i + 1, url, try_parent_urls)

(* Site.accept_reject_or_neither(url, parent_page): "True", "False" or
   "None" *)
AcceptRejectAcceptsFirst(s, url, parent_page) ==
    LET try_parent_urls == TryParentUrls(parent_page)
    IN  IF url.scheme \notin {"http", "https"} THEN "False"
        ELSE IF /\ parent_page # {}
                /\ "max_hops" \in DOMAIN s.scope
                /\ \E pp \in parent_page :
                      pp.hops_from_seed >= s.scope["max_hops"]
        THEN "False"
        ELSE IF FirstHit(s.scope["accepts"], 1, url, try_parent_urls) # 0
        THEN "True"
        ELSE IF /\ "blocks" \in DOMAIN s.scope
                /\ FirstHit(s.scope["blocks"], 1, url, try_parent_urls) # 0
        THEN "False"
        ELSE "None"

AcceptRejectOrNeither(s, url, parent_page) ==
    LET try_parent_urls == TryParentUrls(parent_page)
    IN  IF url.scheme \notin {"http", "https"} THEN "False"
        ELSE IF /\ parent_page # {}
                /\ "max_hops" \in DOMAIN s.scope
                /\ \E pp \in parent_page :
                      pp.hops_from_seed >= s.scope["max_hops"]
        THEN "False"
        ELSE IF /\ "blocks" \in DOMAIN s.scope
                /\ FirstHit(s.scope["blocks"], 1, url, try_parent_urls) # 0
        THEN "False"
        ELSE IF FirstHit(s.scope["accepts"], 1, url, try_parent_urls) # 0
        THEN "True"
        ELSE "None"

(* The call reads the Site and changes nothing: one call per behaviour
   shows all there is to see. *)
accept_reject_or_neither(url, parent_page) ==
    /\ last = NoCall
    /\ last' = Call("accept_reject_or_neither", <<url, parent_page>>,
                    AcceptRejectOrNeither(site, url, parent_page), {})
    /\ UNCHANGED <<sites, pages, heldSites, log, ns, site, jobs, nj, now, schema>>

(* The rules scopes are made of *)
RulePool ==
    { [ssurt |-> <<"a.com", "http", "/", "x">>],
      [ssurt |-> <<"a.com">>, parent_url_regex |-> "b.com"],
      [ssurt |-> <<"b.com">>] }

RuleLists == UNION {[1..n -> RulePool] : n \in 0..MaxRules}

(* The scopes a Site is built with for the decisions: accept rules, block
   rules or none, max_hops or none. *)
DecideScopes ==
    {[accepts |-> a] : a \in RuleLists}
    \cup {[accepts |-> a, blocks |-> b] : a \in RuleLists, b \in RuleLists}
    \cup {[accepts |-> a, max_hops |-> h] : a \in RuleLists, h \in 1..MaxHops}
    \cup {[accepts |-> a, blocks |-> b, max_hops |-> h] :
            a \in RuleLists, b \in RuleLists \ {<<>>}, h \in 1..MaxHops}

InitDecide ==
    /\ sites = {}
    /\ pages = {}
    /\ heldSites = [w \in Workers |-> {}]
    /\ last = NoCall
    /\ log = <<>>
    /\ ns = NoNewSite
    /\ jobs = {}
    /\ nj = NoNewJob
    /\ now = 1
    /\ schema = SchemaReady
    /\ \E scope \in DecideScopes :
          site = SitePopulateDefaults(
                    [seed |-> [scheme |-> "http", authority |-> "a.com",
                               path |-> <<>>, query |-> ""],
                     scope |-> scope, noted |-> {}])

NextDecide ==
    \E url \in DecideUrls, parent_page \in {{}} \cup {{pp} : pp \in ParentPages} :
        accept_reject_or_neither(url, parent_page)

SpecDecide == InitDecide /\ [][NextDecide]_vars

----------------------------------------------------------------------------
(* Statements about the decision *)

DecidedUrl == last.arg[1]
DecidedParent == last.arg[2]

(* The urls a rule is paired with: the parent's url and its redirect url *)
ParentCandidates(parent_page) ==
    UNION {{pp.url} \cup pp.redirect_url : pp \in parent_page}

(* The rule matches the url alone when there is no parent, otherwise the
   url paired with some parent candidate. *)
RuleMatches(rule, url, parent_page) ==
    IF parent_page = {}
    THEN Applies(rule, url, {})
    ELSE \E c \in ParentCandidates(parent_page) : Applies(rule, url, {c})

BadScheme(url) == url.scheme # "http" /\ url.scheme # "https"

TooManyHops(s, parent_page) ==
    /\ "max_hops" \in DOMAIN s.scope
    /\ \E pp \in parent_page : pp.hops_from_seed >= s.scope["max_hops"]

SomeBlockMatches(s, url, parent_page) ==
    /\ "blocks" \in DOMAIN s.scope
    /\ \E i \in 1..Len(s.scope["blocks"]) :
          RuleMatches(s.scope["blocks"][i], url, parent_page)

SomeAcceptMatches(s, url, parent_page) ==
    \E i \in 1..Len(s.scope["accepts"]) :
        RuleMatches(s.scope["accepts"][i], url, parent_page)

(* C12: accept_reject_or_neither(url, parent_page) rejects a url whose
   scheme is not http or https; else rejects when there is a parent page,
   scope.max_hops is set and the parent's hops_from_seed >= max_hops; else
   rejects when some block rule matches; else accepts when some accept rule
   matches; else gives None.  So a url matched by a block rule and an accept
   rule is rejected, and so is a url of another scheme that an accept rule
   matches. *)
C12_DecisionOrder ==
    last.op = "accept_reject_or_neither" =>
        /\ last.out =
              IF BadScheme(DecidedUrl) THEN "False"
              ELSE IF TooManyHops(site, DecidedParent) THEN "False"
              ELSE IF SomeBlockMatches(site, DecidedUrl, DecidedParent)
              THEN "False"
              ELSE IF SomeAcceptMatches(site, DecidedUrl, DecidedParent)
              THEN "True"
              ELSE "None"
        /\ ( /\ SomeBlockMatches(site, DecidedUrl, DecidedParent)
             /\ SomeAcceptMatches(site, DecidedUrl, DecidedParent) )
              => last.out = "False"
        /\ ( /\ BadScheme(DecidedUrl)
             /\ SomeAcceptMatches(site, DecidedUrl, DecidedParent) )
              => last.out = "False"

(* A http url that an accept rule matches was rejected for a block rule
   that matches it only when paired with the parent's redirect url. *)
C12_Witness ==
    /\ last.op = "accept_reject_or_neither"
    /\ last.out = "False"
    /\ ~ BadScheme(DecidedUrl)
    /\ ~ TooManyHops(site, DecidedParent)
    /\ SomeAcceptMatches(site, DecidedUrl, DecidedParent)
    /\ \E pp \in DecidedParent :
          /\ pp.redirect_url # {}
          /\ ~ SomeBlockMatches(site, DecidedUrl,
                                {[pp EXCEPT !.redirect_url = {}]})

----------------------------------------------------------------------------
(* model.py: validate_conf, merge, Job, new_job *)

MaxSeeds == 2
MaxJobs == 2
MaxTime == 4

(* A job configuration is a dict: a function from the keys it has.  The
   values under "scope" are dicts, those under "seeds", "accepts" and
   "blocks" are lists, every other value is a scalar. *)
KindOf(k) ==
    IF k \in {"scope"} THEN "dict"
    ELSE IF k \in {"seeds", "accepts", "blocks"} THEN "list"
    ELSE "scalar"

(* merge(a, b), for a and b both of the given kind; a key of a that b lacks
   is merged with None and keeps a's value. *)
RECURSIVE mergeListOfBOnly(_, _, _)
mergeListOfBOnly(kind, a, b) ==
    IF kind = "dict"
    THEN [k \in (DOMAIN a) \cup (DOMAIN b) |->
            IF k \in DOMAIN a
            THEN IF k \in DOMAIN b
                 THEN mergeListOfBOnly(KindOf(k), a[k], b[k])
                 ELSE a[k]
            ELSE b[k]]
    ELSE IF kind = "list" THEN b
    ELSE a

RECURSIVE merge(_, _, _)
merge(kind, a, b) ==
    IF kind = "dict"
    THEN [k \in (DOMAIN a) \cup (DOMAIN b) |->
            IF k \in DOMAIN a
            THEN IF k \in DOMAIN b
                 THEN merge(KindOf(k), a[k], b[k])
                 ELSE a[k]
            ELSE b[k]]
    ELSE IF kind = "list" THEN a \o b
    ELSE a

(* JobValidator._validate_type_url *)
_validate_type_url(value) == value.scheme \in {"http", "https", "ftp"}

(* validate_conf(job_conf): TRUE when InvalidJobConf is not raised.  The
   schema file is data outside the source files: schema_ok is what the
   validator finds for the rules of the schema other than the url type. *)
validate_conf(job_conf, schema_ok) ==
    /\ schema_ok
    /\ \A i \in 1..Len(job_conf["seeds"]) :
          _validate_type_url(job_conf["seeds"][i]["url"])

(* None, where a time is expected *)
NoTime == 0

(* Job.populate_defaults *)
JobPopulateDefaults(doc, t) ==
    LET d1 == SetDefault(doc, "status", "ACTIVE")
        d2 == SetDefault(d1, "pdfs_only", FALSE)
    IN  IF "starts_and_stops" \notin DOMAIN d2
        THEN IF "started" \in DOMAIN d2 /\ d2["started"] # NoTime
             THEN DelKey(DelKey(
                    d2 @@ ("starts_and_stops" :>
                             <<[start |-> d2["started"],
                                stop |-> IF "finished" \in DOMAIN d2
                                         THEN d2["finished"] ELSE NoTime]>>),
                    "started"), "finished")
             ELSE d2 @@ ("starts_and_stops" :>
                            <<[start |-> t, stop |-> NoTime]>>)
        ELSE d2

(* Job(rr, d): construction runs the default-population pass. *)
Job(d, t) == JobPopulateDefaults(d, t)

(* Job.finish(), at time t *)
JobFinish(job, t) ==
    [job EXCEPT !["status"] = "FINISHED",
                !["starts_and_stops"] =
                    [@ EXCEPT ![Len(@)] = [@ EXCEPT !.stop = t]]]

JobIdsOf(tbl) == {d["id"] : d \in tbl}

(* The keys the store generates for jobs saved without one *)
GeneratedJobIds == {"g1", "g2", "g3", "g4"}

(* job.save(): a job that has an id is written over the stored job of that
   id, or inserted when there is none; a job without id is inserted under a
   key the store generates. *)
JobSave(tbl, job) ==
    IF "id" \in DOMAIN job
    THEN [tbl |-> Save(tbl, job), id |-> job["id"]]
    ELSE LET g == CHOOSE x \in GeneratedJobIds : x \notin JobIdsOf(tbl)
         IN  [tbl |-> tbl \cup {job @@ ("id" :> g)}, id |-> g]

(* Site(rr, d): construction runs the default-population pass. *)
Site(kwargs) ==
    SitePopulateDefaults(
        SetDefault(SetDefault(kwargs, "status", "ACTIVE"), "claimed", FALSE))

(* The job new_job builds from job_conf at time t, before it is saved *)
NewJobJob(job_conf, t) ==
    LET job == Job([conf |-> job_conf, status |-> "ACTIVE", started |-> t], t)
        copied == {"id", "max_claimed_sites", "pdfs_only"} \cap DOMAIN job_conf
    IN  Merged(job, [k \in copied |-> job_conf[k]])

(* str(uuid.uuid4()): an id no stored Site has; the i-th of one call *)
Uuid4(tbl, i) ==
    LET used == SiteIdsOf(tbl) \cup {0}
    IN  (CHOOSE m \in used : \A x \in used : x <= m) + i

(* The body of the loop over job_conf["seeds"], for the i-th seed *)
NewJobSite(job_conf, job_id, tbl, i) ==
    LET seed_conf == job_conf["seeds"][i]
        merged_conf == merge("dict", seed_conf, job_conf)
        mc1 == DelKey(merged_conf, "seeds")
        mc2 == Merged(mc1, [job_id |-> job_id])
        mc3 == Merged(DelKey(mc2, "url"), [seed |-> mc2["url"]])
    IN  Merged(Site(mc3), [id |-> Uuid4(tbl, i)])

(* The seeds of a job conf have no fragment. *)
NewJobPage(s) == new_seed_page(s["id"], <<s["seed"], "">>)

PAGE_BATCH == 500
SITE_BATCH == 100

(* table.insert(batch): every document of the batch whose key is neither
   stored nor the key of an earlier document of the batch; new_job does not
   look at the report. *)
InsertBatch(tbl, batch) ==
    tbl \cup {batch[i] : i \in
                {j \in 1..Len(batch) :
                    /\ batch[j]["id"] \notin {d["id"] : d \in tbl}
                    /\ \A k \in 1..(j - 1) : batch[k]["id"] # batch[j]["id"]}}

(* lst[i : i + size], for i counted from 0 *)
SliceOneMore(lst, i, size) ==
    SubSeq(lst, i + 1, IF i + size + 1 < Len(lst) THEN i + size + 1 ELSE Len(lst))

Slice(lst, i, size) ==
    SubSeq(lst, i + 1, IF i + size < Len(lst) THEN i + size ELSE Len(lst))

BatchIds(batch) == [i \in 1..Len(batch) |-> batch[i]["id"]]

(* new_job(frontier, job_conf) up to the first batch: validation, the job
   saved, the sites and pages built.  `log` is started anew; `last` reads
   "running" until the call ends.  Every reading of the clock finds it
   advanced. *)
NewJobBeginSavesFirst(job_conf, schema_ok) ==
    /\ nj.pc = "idle"
    /\ IF ~ validate_conf(job_conf, schema_ok)
       THEN /\ last' = Call("new_job", <<"">>, "InvalidJobConf", {})
            /\ jobs' = JobSave(jobs, NewJobJob(job_conf, now)).tbl
            /\ UNCHANGED <<nj, log, now>>
       ELSE LET job == NewJobJob(job_conf, now)
                saved == JobSave(jobs, job)
                n == Len(job_conf["seeds"])
                site_list ==
                    [i \in 1..n |-> NewJobSite(job_conf, saved.id, sites, i)]
                page_list == [i \in 1..n |-> NewJobPage(site_list[i])]
            IN  /\ jobs' = saved.tbl
                /\ now' = now + 1
                /\ log' = <<>>
                /\ IF n = 0
                   THEN /\ nj' = NoNewJob
                        /\ last' = Call("new_job", <<saved.id>>, "ok", {})
                   ELSE /\ nj' = [pc |-> "pages", conf |-> job_conf,
                                  job |-> saved.id, pages |-> page_list,
                                  sites |-> site_list, done |-> 0]
                        /\ last' = Call("new_job", <<saved.id>>, "running", {})
    /\ UNCHANGED <<sites, pages, heldSites, ns, site, schema>>

NewJobBegin(job_conf, schema_ok) ==
    /\ nj.pc = "idle"
    /\ IF ~ validate_conf(job_conf, schema_ok)
       THEN /\ last' = Call("new_job", <<"">>, "InvalidJobConf", {})
            /\ UNCHANGED <<jobs, nj, log, now>>
       ELSE LET job == NewJobJob(job_conf, now)
                saved == JobSave(jobs, job)
                n == Len(job_conf["seeds"])
                site_list ==
                    [i \in 1..n |-> NewJobSite(job_conf, saved.id, sites, i)]
                page_list == [i \in 1..n |-> NewJobPage(site_list[i])]
            IN  /\ jobs' = saved.tbl
                /\ now' = now + 1
                /\ log' = <<>>
                /\ IF n = 0
                   THEN /\ nj' = NoNewJob
                        /\ last' = Call("new_job", <<saved.id>>, "ok", {})
                   ELSE /\ nj' = [pc |-> "pages", conf |-> job_conf,
                                  job |-> saved.id, pages |-> page_list,
                                  sites |-> site_list, done |-> 0]
                        /\ last' = Call("new_job", <<saved.id>>, "running", {})
    /\ UNCHANGED <<sites, pages, heldSites, ns, site, schema>>

(* One pass of the loop over the page batches: one insert *)
NewJobInsertPages ==
    /\ nj.pc = "pages"
    /\ LET batch == Slice(nj.pages, nj.done, PAGE_BATCH)
       IN  /\ pages' = InsertBatch(pages, batch)
           /\ log' = Append(log, Call("insert", <<"pages", BatchIds(batch)>>,
                                      "ok", {}))
           /\ nj' = IF nj.done + PAGE_BATCH < Len(nj.pages)
                    THEN [nj EXCEPT !.done = @ + PAGE_BATCH]
                    ELSE [nj EXCEPT !.pc = "sites", !.done = 0]
    /\ UNCHANGED <<sites, heldSites, last, ns, site, jobs, now, schema>>

(* One pass of the loop over the site batches: one insert; after the last
   one new_job returns the job. *)
NewJobInsertSites ==
    /\ nj.pc = "sites"
    /\ LET batch == Slice(nj.sites, nj.done, SITE_BATCH)
       IN  /\ sites' = InsertBatch(sites, batch)
           /\ log' = Append(log, Call("insert", <<"sites", BatchIds(batch)>>,
                                      "ok", {}))
           /\ IF nj.done + SITE_BATCH < Len(nj.sites)
              THEN /\ nj' = [nj EXCEPT !.done = @ + SITE_BATCH]
                   /\ last' = last
              ELSE /\ nj' = NoNewJob
                   /\ last' = Call("new_job", <<nj.job>>, "ok", {})
    /\ UNCHANGED <<pages, heldSites, ns, site, jobs, now, schema>>

(* job.finish() on a stored job, as loaded, and the job saved *)
job_finish(id) ==
    /\ now <= MaxTime
    /\ now' = now + 1
    /\ \E d \in jobs :
          /\ d["id"] = id
          /\ jobs' = (jobs \ {d}) \cup {JobFinish(Job(d, now), now)}
    /\ last' = Call("finish", <<id>>, "ok", {})
    /\ UNCHANGED <<sites, pages, heldSites, log, ns, site, nj, schema>>

(* A stored job is loaded and saved: construction runs populate_defaults. *)
job_load(id) ==
    /\ \E d \in jobs :
          /\ d["id"] = id
          /\ jobs' = (jobs \ {d}) \cup {Job(d, now)}
    /\ last' = Call("load", <<id>>, "ok", {})
    /\ UNCHANGED <<sites, pages, heldSites, log, ns, site, nj, now, schema>>

(* The job confs of the model *)
SeedUrlA == [scheme |-> "http", authority |-> "a.com", path |-> <<>>, query |-> ""]
SeedUrlB == [scheme |-> "https", authority |-> "b.com", path |-> <<"x">>, query |-> ""]
SeedUrlBad == [scheme |-> "file", authority |-> "a.com", path |-> <<>>, query |-> ""]

SeedConfs ==
    { [url |-> SeedUrlA],
      [url |-> SeedUrlB, time_limit |-> 1,
       scope |-> [accepts |-> <<[ssurt |-> <<"b.com">>,
                                 parent_url_regex |-> ".*"]>>]],
      [url |-> SeedUrlBad] }

JobLevelConfs ==
    { [k \in {} |-> 0],
      [id |-> "j1", time_limit |-> 2,
       scope |-> [accepts |-> <<[ssurt |-> <<"a.com", "https">>]>>,
                  max_hops |-> 2]] }

JobConfs ==
    {j @@ ("seeds" :> seeds) :
        j \in JobLevelConfs,
        seeds \in UNION {[1..n -> SeedConfs] : n \in 0..MaxSeeds}}

(* The calls are capped: MaxJobs jobs, MaxJobs * MaxSeeds sites, MaxTime
   readings of the clock. *)
NewJobCap(job_conf) ==
    /\ now <= MaxTime
    /\ \/ Cardinality(jobs) < MaxJobs
       \/ "id" \in DOMAIN job_conf /\ job_conf["id"] \in JobIdsOf(jobs)
    /\ Cardinality(sites) + Len(job_conf["seeds"]) <= MaxJobs * MaxSeeds

InitJob ==
    /\ sites = {}
    /\ pages = {}
    /\ heldSites = [w \in Workers |-> {}]
    /\ last = NoCall
    /\ log = <<>>
    /\ ns = NoNewSite
    /\ site = NoSite
    /\ jobs = {}
    /\ nj = NoNewJob
    /\ now = 1
    /\ schema = SchemaReady

NextJob ==
    \/ \E job_conf \in JobConfs, schema_ok \in BOOLEAN :
          NewJobCap(job_conf) /\ NewJobBegin(job_conf, schema_ok)
    \/ NewJobInsertPages
    \/ NewJobInsertSites
    \/ \E id \in JobIdsOf(jobs) : job_finish(id)
    \/ \E id \in JobIdsOf(jobs) : job_load(id)

SpecJob == InitJob /\ [][NextJob]_vars

----------------------------------------------------------------------------
(* new_job with many seeds: the batches *)

MaxBatchSeeds == 1200

(* The numbers of seeds tried: around every multiple of SITE_BATCH *)
SeedCounts ==
    {n \in 1..MaxBatchSeeds :
        n % SITE_BATCH \in {0, 1, SITE_BATCH - 1} \/ n = MaxBatchSeeds}

BatchConf(n) == [seeds |-> [i \in 1..n |-> [url |-> SeedUrlA]]]

InitBatch ==
    /\ sites = {}
    /\ pages = {}
    /\ heldSites = [w \in Workers |-> {}]
    /\ last = NoCall
    /\ log = <<>>
    /\ ns = NoNewSite
    /\ site = NoSite
    /\ jobs = {}
    /\ nj = NoNewJob
    /\ now = 1
    /\ schema = SchemaReady

(* One job per behaviour *)
NextBatch ==
    \/ \E n \in SeedCounts : jobs = {} /\ NewJobBegin(BatchConf(n), TRUE)
    \/ NewJobInsertPages
    \/ NewJobInsertSites

SpecBatch == InitBatch /\ [][NextBatch]_vars

----------------------------------------------------------------------------
(* Statements about new_job and Job *)

EmptyDict == [k \in {} |-> 0]

SubDict(d, k) == IF k \in DOMAIN d THEN d[k] ELSE EmptyDict

ListOf(d, k) == IF k \in DOMAIN d THEN d[k] ELSE <<>>

(* The Site built for the seed entry seed_conf of job_conf: its seed is the
   entry's url; a scalar key of the entry has the entry's value; a scalar
   key of the job level alone, other than id, has the job's value; the same
   for the scalar keys inside scope; a list inside scope begins with the
   two lists joined, the seed's first or the job's first. *)
SiteIsMerge(st, seed_conf, job_conf, seed_first) ==
    LET ss == SubDict(seed_conf, "scope")
        js == SubDict(job_conf, "scope")
    IN  /\ st["seed"] = seed_conf["url"]
        /\ \A k \in (DOMAIN seed_conf) \ {"url"} :
              KindOf(k) = "scalar" => st[k] = seed_conf[k]
        /\ \A k \in (DOMAIN job_conf) \ ((DOMAIN seed_conf) \cup {"seeds", "id"}) :
              KindOf(k) = "scalar" => st[k] = job_conf[k]
        /\ \A k \in (DOMAIN ss) \cup (DOMAIN js) :
              IF KindOf(k) = "list"
              THEN startswith(st["scope"][k],
                              IF seed_first
                              THEN ListOf(ss, k) \o ListOf(js, k)
                              ELSE ListOf(js, k) \o ListOf(ss, k))
              ELSE st["scope"][k] = IF k \in DOMAIN ss THEN ss[k] ELSE js[k]

SitesAreMerges(seed_first) ==
    nj.pc # "idle" =>
        \A i \in 1..Len(nj.sites) :
            SiteIsMerge(nj.sites[i], nj.conf["seeds"][i], nj.conf, seed_first)

(* C13 (as amended): in new_job each site's configuration is the merge of
   its seed entry with the job-level configuration: a scalar key present in
   both takes the seed's value, a key present only at job level (other than
   seeds, which is dropped, and id, which a fresh uuid replaces) is
   inherited, and a list-valued key present in both becomes the seed's list
   followed by the job's list. *)
C13_SeedListThenJobList == SitesAreMerges(TRUE)

(* new_job has built a Site from a seed entry and a job conf that both set
   time_limit and scope.accepts, to different values. *)
C13_Witness ==
    /\ nj.pc = "sites"
    /\ \E i \in 1..Len(nj.sites) :
          LET sc == nj.conf["seeds"][i]
          IN  /\ "time_limit" \in DOMAIN sc /\ "time_limit" \in DOMAIN nj.conf
              /\ sc["time_limit"] # nj.conf["time_limit"]
              /\ "scope" \in DOMAIN sc /\ "scope" \in DOMAIN nj.conf
              /\ sc["scope"]["accepts"] # nj.conf["scope"]["accepts"]
              /\ nj.sites[i]["scope"]["max_hops"] = nj.conf["scope"]["max_hops"]
              /\ Len(nj.sites[i]["scope"]["accepts"]) = 3

(* C13 as stated: a list-valued key present in both becomes the job's list
   followed by the seed's list. *)
C13_Original == SitesAreMerges(FALSE)

(* The inserts new_job has issued into table tbl, in order *)
BatchesInto(tbl) == SelectSeq(log, LAMBDA c : c.arg[1] = tbl)

RECURSIVE Flat(_)
Flat(batches) ==
    IF batches = <<>> THEN <<>>
    ELSE Head(batches).arg[2] \o Flat(Tail(batches))

(* The job conf of the call in progress, or of the call that has returned *)
BatchJobConf ==
    IF nj.pc # "idle" THEN nj.conf
    ELSE (CHOOSE d \in jobs : d["id"] = last.arg[1])["conf"]

NewJobReturned == nj.pc = "idle" /\ last.op = "new_job" /\ last.out = "ok"

CeilDiv(n, size) == (n + size - 1) \div size

(* Every batch but the last issued holds `size` documents, the last one
   from 1 to `size`. *)
BatchSizes(batches, size) ==
    \A i \in 1..Len(batches) :
        /\ i < Len(batches) => Len(batches[i].arg[2]) = size
        /\ Len(batches[i].arg[2]) \in 1..size

(* C14: new_job with n seed entries inserts pages in consecutive batches of
   500 and sites in consecutive batches of 100, only the last of each
   smaller, in the order of the seed entries; every page batch is issued
   before the first site batch; when it returns, it has inserted one Site
   per seed entry and that Site's seed Page, each exactly once. *)
C14_Batches ==
    (nj.pc # "idle" \/ NewJobReturned) =>
        LET n == Len(BatchJobConf["seeds"])
            pb == BatchesInto("pages")
            sb == BatchesInto("sites")
            pids == Flat(pb)
            sids == Flat(sb)
        IN  /\ log = pb \o sb
            /\ sb # <<>> => Len(pids) = n
            /\ BatchSizes(pb, PAGE_BATCH)
            /\ BatchSizes(sb, SITE_BATCH)
            /\ NewJobReturned =>
                  /\ Len(pb) = CeilDiv(n, PAGE_BATCH)
                  /\ Len(sb) = CeilDiv(n, SITE_BATCH)
                  /\ Len(pids) = n /\ Len(sids) = n
                  /\ Cardinality({pids[k] : k \in 1..n}) = n
                  /\ Cardinality({sids[k] : k \in 1..n}) = n
                  /\ Cardinality(sites) = n /\ Cardinality(pages) = n
                  /\ \A k \in 1..n :
                        /\ \E d \in sites :
                              /\ d["id"] = sids[k]
                              /\ d["seed"] = BatchJobConf["seeds"][k]["url"]
                              /\ pids[k] = compute_id(d["id"], d["seed"])
                        /\ \E d \in pages :
                              d["id"] = pids[k] /\ d["site_id"] = sids[k]

(* new_job has returned for 1,200 seed entries: page batches of 500, 500
   and 200, twelve site batches of 100. *)
C14_Witness ==
    /\ NewJobReturned
    /\ Len(BatchJobConf["seeds"]) = 1200
    /\ [i \in 1..3 |-> Len(BatchesInto("pages")[i].arg[2])] = <<500, 500, 200>>
    /\ Len(BatchesInto("sites")) = 12
    /\ \A i \in 1..12 : Len(BatchesInto("sites")[i].arg[2]) = 100

(* C15: a new_job call that raises InvalidJobConf has written nothing: the
   jobs, sites and pages tables are as they were, and nothing of the call
   is left in progress. *)
C15_InvalidConfWritesNothing ==
    [][(last'.op = "new_job" /\ last'.out = "InvalidJobConf") =>
          /\ jobs' = jobs
          /\ sites' = sites
          /\ pages' = pages
          /\ nj' = nj /\ nj'.pc = "idle"]_vars

(* new_job has raised InvalidJobConf in a store that holds a job and its
   sites and pages from an earlier call. *)
C15_Witness ==
    /\ last.op = "new_job" /\ last.out = "InvalidJobConf"
    /\ jobs # {} /\ sites # {} /\ pages # {}
    /\ nj = NoNewJob

----------------------------------------------------------------------------
(* db.py: new_site, new_page, update_site and update_page against a store
   that may report anything.  `log` holds the reports the store gives to
   the requests to come, the next one first. *)

MaxCount == 1

(* Every report with counters up to MaxCount *)
AllReports == [VetKeys -> 0..MaxCount]

(* The reports of a well-behaved store for one document *)
PlainReports == {ZeroResult} \cup {Report(k) : k \in VetKeys}

(* result = <query>.run(conn); self._vet_result(result, kwargs): one request,
   one report, vetted once *)
Vetted(op, kwargs) ==
    /\ log # <<>>
    /\ log' = Tail(log)
    /\ last' = Call(op, <<Head(log)>>,
                    IF _vet_result(Head(log), kwargs)
                    THEN "ok" ELSE "UnexpectedDbResult", {})
    /\ UNCHANGED <<sites, pages, heldSites, ns, site, jobs, nj, now, schema>>

(* new_site reads result["generated_keys"][0] after the vetting: a report
   without generated keys ends the call with a KeyError. *)
new_site_reported ==
    \E generated_keys \in BOOLEAN :
        /\ log # <<>>
        /\ log' = Tail(log)
        /\ last' = Call("new_site", <<Head(log)>>,
                        IF ~ _vet_result(Head(log), [inserted |-> Exactly(1)])
                        THEN "UnexpectedDbResult"
                        ELSE IF generated_keys THEN "ok" ELSE "KeyError", {})
        /\ UNCHANGED <<sites, pages, heldSites, ns, site, jobs, nj, now, schema>>

new_page_reported == Vetted("new_page", [inserted |-> Exactly(1)])

update_site_reported == Vetted("update_site", [replaced |-> Exactly(1)])

update_page_reported ==
    Vetted("update_page", [replaced |-> OneOf({0, 1}),
                           unchanged |-> OneOf({0, 1})])

InitVet ==
    /\ sites = {}
    /\ pages = {}
    /\ heldSites = [w \in Workers |-> {}]
    /\ last = NoCall
    /\ \E r1 \in AllReports, r2 \in PlainReports : log = <<r1, r2>>
    /\ ns = NoNewSite
    /\ site = NoSite
    /\ jobs = {}
    /\ nj = NoNewJob
    /\ now = 1
    /\ schema = SchemaReady

NextVet ==
    \/ new_site_reported
    \/ new_page_reported
    \/ update_site_reported
    \/ update_page_reported

SpecVet == InitVet /\ [][NextVet]_vars

(* C16: new_site and new_page end well only when the store's report is one
   row inserted and every other counter zero, update_site only when it is
   one row replaced and every other counter zero; on any other report they
   raise UnexpectedDbResult; either way the call has made one request and
   looked at one report. *)
C16_ExactReportOrRaise ==
    [][last'.op \in {"new_site", "new_page", "update_site"} =>
          /\ log # <<>>
          /\ log' = Tail(log)
          /\ last'.arg = <<Head(log)>>
          /\ LET exact == Head(log) = Report(IF last'.op = "update_site"
                                              THEN "replaced" ELSE "inserted")
             IN  /\ last'.out = "ok" => exact
                 /\ ~ exact => last'.out = "UnexpectedDbResult"]_vars

(* update_site has raised on a report of one row unchanged and none
   replaced, and has not asked again though the store's next report would
   have been one row replaced. *)
C16_Witness ==
    /\ last.op = "update_site"
    /\ last.out = "UnexpectedDbResult"
    /\ last.arg = <<Report("unchanged")>>
    /\ log = <<Report("replaced")>>

----------------------------------------------------------------------------
(* Statements about update_page and about claims that stay *)

UpdatePageKwargs == [replaced |-> OneOf({0, 1}), unchanged |-> OneOf({0, 1})]

(* C17: update_page(page) for a page that is stored with the same content
   ends well, on a report of no row replaced, and leaves the pages table as
   it was; and after any update_page(page) that ended well, the same call
   again ends well and changes nothing. *)
C17_UpdatePageIdempotent ==
    [][\A page \in {p \in UpdatablePages :
                        last'.op = "update_page" /\ p.id = last'.arg[1]} :
          update_page(page) =>
             /\ page \in pages =>
                   /\ last'.out = "ok"
                   /\ last'.arg[2] = Report("unchanged")
                   /\ pages' = pages
             /\ last'.out = "ok" =>
                   LET again == GetUpdate(pages', page.id, page)
                   IN  /\ again.tbl = pages'
                       /\ again.result = Report("unchanged")
                       /\ _vet_result(again.result, UpdatePageKwargs)]_vars

(* update_page has ended well on a report of one row unchanged and none
   replaced, for a stored page that is claimed. *)
C17_Witness ==
    /\ last.op = "update_page"
    /\ last.out = "ok"
    /\ last.arg[2] = Report("unchanged")
    /\ \E d \in pages : d.id = last.arg[1] /\ d.claimed = TRUE

----------------------------------------------------------------------------
(* db.py: _ensure_db.  schema holds the databases of the store, their
   tables as <<db, table>> and their indexes as <<db, table, index>>, the
   place of the _ensure_db call in progress, the database it is for, and
   the store as that call found it. *)

DbNames == {"brozzler", "test"}

PriorityIndex(db) == <<db, "pages", "priority_by_site">>

Snapshot(sc) == [dbs |-> sc.dbs, tables |-> sc.tables, indexes |-> sc.indexes]

(* r.db(self.db).table_list(): the first query of _ensure_db and what the
   try block makes of it.  A database that is absent sends control to the
   except block; a database without one of the two tables raises an
   Exception that nothing catches; otherwise the call returns. *)
EnsureDbBegin(db) ==
    /\ schema.pc = "idle"
    /\ LET found == [schema EXCEPT !.db = db, !.before = Snapshot(schema)]
       IN  IF db \notin schema.dbs
           THEN /\ schema' = [found EXCEPT !.pc = "db_create"]
                /\ last' = Call("_ensure_db", <<db>>, "running", {})
           ELSE IF \E tbl \in {"sites", "pages"} : <<db, tbl>> \notin schema.tables
           THEN /\ schema' = found
                /\ last' = Call("_ensure_db", <<db>>, "Exception", {})
           ELSE /\ schema' = found
                /\ last' = Call("_ensure_db", <<db>>, "ok", {})
    /\ UNCHANGED <<sites, pages, heldSites, log, ns, site, jobs, nj, now>>

(* r.db_create(self.db) *)
EnsureDbCreateDb ==
    /\ schema.pc = "db_create"
    /\ IF schema.db \in schema.dbs
       THEN /\ schema' = [schema EXCEPT !.pc = "idle"]
            /\ last' = Call("_ensure_db", <<schema.db>>, "ReqlOpFailedError", {})
       ELSE /\ schema' = [schema EXCEPT !.dbs = @ \cup {schema.db},
                                        !.pc = "create_sites"]
            /\ last' = last
    /\ UNCHANGED <<sites, pages, heldSites, log, ns, site, jobs, nj, now>>

(* r.db(self.db).table_create("sites"), then table_create("pages") *)
EnsureDbCreateTable ==
    /\ schema.pc \in {"create_sites", "create_pages"}
    /\ LET tbl == IF schema.pc = "create_sites" THEN "sites" ELSE "pages"
       IN  schema' = [schema EXCEPT
                        !.tables = @ \cup {<<schema.db, tbl>>},
                        !.pc = IF tbl = "sites" THEN "create_pages"
                               ELSE "create_index"]
    /\ UNCHANGED <<sites, pages, heldSites, last, log, ns, site, jobs, nj, now>>

(* r.db(self.db).table("pages").index_create("priority_by_site", ...); then
   _ensure_db returns. *)
EnsureDbCreateIndexSkipped ==
    /\ schema.pc = "create_index"
    /\ schema' = [schema EXCEPT !.pc = "idle"]
    /\ last' = Call("_ensure_db", <<schema.db>>, "ok", {})
    /\ UNCHANGED <<sites, pages, heldSites, log, ns, site, jobs, nj, now>>

EnsureDbCreateIndex ==
    /\ schema.pc = "create_index"
    /\ schema' = [schema EXCEPT !.indexes = @ \cup {PriorityIndex(schema.db)},
                                !.pc = "idle"]
    /\ last' = Call("_ensure_db", <<schema.db>>, "ok", {})
    /\ UNCHANGED <<sites, pages, heldSites, log, ns, site, jobs, nj, now>>

(* The stores _ensure_db may find: each database absent, or present with
   any of the tables sites, pages and jobs, the pages table with or without
   the index. *)
InitSchema ==
    /\ sites = {}
    /\ pages = {}
    /\ heldSites = [w \in Workers |-> {}]
    /\ last = NoCall
    /\ log = <<>>
    /\ ns = NoNewSite
    /\ site = NoSite
    /\ jobs = {}
    /\ nj = NoNewJob
    /\ now = 1
    /\ \E dbs \in SUBSET DbNames,
          tables \in SUBSET (DbNames \X {"sites", "pages", "jobs"}),
          indexes \in SUBSET {PriorityIndex(db) : db \in DbNames} :
            schema = [dbs |-> dbs, tables |-> tables, indexes |-> indexes,
                      pc |-> "idle", db |-> "brozzler",
                      before |-> [dbs |-> {}, tables |-> {}, indexes |-> {}]]
    /\ \A t \in schema.tables : t[1] \in schema.dbs
    /\ \A x \in schema.indexes : <<x[1], x[2]>> \in schema.tables

NextSchema ==
    \/ \E db \in DbNames : EnsureDbBegin(db)
    \/ EnsureDbCreateDb
    \/ EnsureDbCreateTable
    \/ EnsureDbCreateIndex

SpecSchema == InitSchema /\ [][NextSchema]_vars

(* Statements about _ensure_db *)

EnsureDbReturned == last.op = "_ensure_db" /\ schema.pc = "idle"

RequiredTables(db) == {<<db, "sites">>, <<db, "pages">>}

SchemaComplete(sc, db) ==
    /\ db \in sc.dbs
    /\ RequiredTables(db) \subseteq sc.tables
    /\ PriorityIndex(db) \in sc.indexes

SchemaUntouched == Snapshot(schema) = schema.before

(* C18, as the code has it: when _ensure_db returns or raises, then
   - if it found no database of its name, it has returned, and the store is
     the store it found plus that database, its tables sites and pages and
     the index priority_by_site on pages, so that schema is complete;
   - if it found the database with both tables, it has returned and the
     store is as it found it, whether or not the index is there;
   - if it found the database without one of the two tables, it has raised
     an Exception and the store is as it found it;
   and in each case the database is there afterwards, so a second call for
   the same database finds it and writes nothing. *)
C18_EnsureDbCreatesOnlyWholeSchema ==
    EnsureDbReturned =>
        LET db == schema.db
            before == schema.before
        IN  /\ db \notin before.dbs =>
                /\ last.out = "ok"
                /\ schema.dbs = before.dbs \cup {db}
                /\ schema.tables = before.tables \cup RequiredTables(db)
                /\ schema.indexes = before.indexes \cup {PriorityIndex(db)}
                /\ SchemaComplete(schema, db)
            /\ (db \in before.dbs /\ RequiredTables(db) \subseteq before.tables) =>
                /\ last.out = "ok"
                /\ SchemaUntouched
            /\ (db \in before.dbs /\ ~(RequiredTables(db) \subseteq before.tables)) =>
                /\ last.out = "Exception"
                /\ SchemaUntouched
            /\ db \in schema.dbs

(* C18, second part: a call of _ensure_db for the database of the call that
   came before it is over in its first query, leaves the store as it is and
   ends as that call ended. *)
C18_EnsureDbAgainChangesNothing ==
    [][(EnsureDbReturned /\ EnsureDbBegin(last.arg[1])) =>
          /\ schema'.pc = "idle"
          /\ Snapshot(schema') = Snapshot(schema)
          /\ last'.out = last.out]_vars

C18_EnsureDb ==
    /\ []C18_EnsureDbCreatesOnlyWholeSchema
    /\ C18_EnsureDbAgainChangesNothing

(* A call that found no database and has created the whole schema, beside
   another database that it left without its index. *)
C18_Witness ==
    /\ EnsureDbReturned
    /\ last.out = "ok"
    /\ schema.db \notin schema.before.dbs
    /\ SchemaComplete(schema, schema.db)
    /\ \E other \in DbNames \ {schema.db} :
          /\ RequiredTables(other) \subseteq schema.tables
          /\ PriorityIndex(other) \notin schema.indexes

(* C18 as stated: from any store, _ensure_db ends with both tables and
   the index present. *)
C18_Original == EnsureDbReturned => SchemaComplete(schema, schema.db)

----------------------------------------------------------------------------
(* Claims that stay: db.py claim_site, claim_page, update_site, update_page
   and every other operation of the adapter over one store, with workers
   that may stop while they hold a Site. *)

(* A worker stops: the Site objects that claim_site returned to it are gone
   with it; the store is not told. *)
crash(w) ==
    /\ heldSites[w] # {}
    /\ heldSites' = [heldSites EXCEPT ![w] = {}]
    /\ last' = Call("crash", <<w>>, "none", {})
    /\ UNCHANGED <<sites, pages, log, ns, site, jobs, nj, now, schema>>

InitHeld ==
    /\ sites = {}
    /\ pages = {}
    /\ heldSites = [w \in Workers |-> {}]
    /\ last = NoCall
    /\ log = <<>>
    /\ ns = NoNewSite
    /\ site = NoSite
    /\ jobs = {}
    /\ nj = NoNewJob
    /\ now = 1
    /\ schema = SchemaReady

NextHeld ==
    \/ \E st \in Statuses : db_new_site(st)
    \/ \E w \in Workers, s \in SiteIds, c \in BOOLEAN, st \in Statuses :
          update_site(w, s, c, st)
    \/ \E w \in Workers : claim_site(w)
    \/ \E w \in Workers : crash(w)
    \/ \E s \in SiteIds, u \in Urls : new_page(s, u, SEED_PRIORITY)
    \/ \E d \in pages, c \in BOOLEAN :
          update_page(Merged(Page(d), [claimed |-> c]))
    \/ \E s \in SiteIds : claim_page(s)
    \/ \E s \in SiteIds : has_outstanding_pages(s)
    \/ \E s \in SiteIds, u \in Urls : get_page(compute_id(s, u))

SpecHeld == InitHeld /\ [][NextHeld]_vars

ClaimedIds(tbl) == {d.id : d \in {x \in tbl : x.claimed}}

(* The documents of tbl1 that were claimed in tbl0 and are not claimed, or
   not there, in tbl1 *)
Released(tbl0, tbl1) == ClaimedIds(tbl0) \ ClaimedIds(tbl1)

(* C19: in every step, a Site that is claimed stays stored and claimed
   unless the step is an update_site call for that Site, and a Page that is
   claimed stays stored and claimed unless the step is an update_page call
   for that Page, and then the call wrote claimed=false; a claim_site or
   claim_page call returns only documents that were not claimed before it;
   and a claimed Site that no worker holds, its worker having stopped, is
   still stored, claimed and held by no one after the step. *)
C19_ClaimsStay ==
    [][/\ \A id \in Released(sites, sites') :
             /\ last'.op = "update_site"
             /\ last'.arg = <<id>>
             /\ \E e \in sites' : e.id = id /\ e.claimed = FALSE
       /\ \A id \in Released(pages, pages') :
             /\ last'.op = "update_page"
             /\ last'.arg[1] = id
             /\ \E e \in pages' : e.id = id /\ e.claimed = FALSE
       /\ (last'.op = "claim_site" /\ last' # last) =>
             \A e \in last'.val : e.id \notin ClaimedIds(sites)
       /\ (last'.op = "claim_page" /\ last' # last) =>
             \A e \in last'.val : e.id \notin ClaimedIds(pages)
       /\ \A id \in ClaimedIds(sites) :
             HeldBy(heldSites, id) = {} =>
                /\ id \in ClaimedIds(sites')
                /\ HeldBy(heldSites', id) = {}]_vars

(* A worker stopped while holding a Site, a Page is claimed, and claim_site
   and claim_page calls made after that found nothing to claim although the
   Site is ACTIVE and the Page was never brozzled. *)
C19_Witness ==
    /\ last.op = "claim_page"
    /\ last.out = "NothingToClaim"
    /\ \E d \in pages :
          /\ d.site_id = last.arg[1]
          /\ d.claimed
          /\ d.brozzle_count = 0
    /\ \E d \in sites :
          /\ d.claimed
          /\ d.status = "ACTIVE"
          /\ HeldBy(heldSites, d.id) = {}

----------------------------------------------------------------------------
(* Statements about the life of a Job *)

StoredJob(tbl, id) == CHOOSE d \in tbl : d["id"] = id

LastStop(job) == job["starts_and_stops"][Len(job["starts_and_stops"])].stop

(* The step saves the job of a new_job call. *)
NewJobSaved == last'.op = "new_job" /\ jobs' # jobs

(* new_job leaves its job ACTIVE with one interval, which is open. *)
JobCreatedOpen ==
    NewJobSaved =>
        LET job == StoredJob(jobs', last'.arg[1])
        IN  /\ job["status"] = "ACTIVE"
            /\ Len(job["starts_and_stops"]) = 1
            /\ LastStop(job) = NoTime

(* finish() leaves its job FINISHED and the stop of the last interval at
   the time of the call, whatever the job was before. *)
FinishStamps ==
    \A id \in JobIdsOf(jobs) :
        job_finish(id) =>
            LET job == StoredJob(jobs', id)
            IN  /\ last'.out = "ok"
                /\ job["status"] = "FINISHED"
                /\ LastStop(job) = now
                /\ Len(job["starts_and_stops"]) =
                      Len(StoredJob(jobs, id)["starts_and_stops"])

(* A FINISHED job stays FINISHED and keeps the number of its intervals. *)
FinishedStays ==
    \A d \in jobs :
        d["status"] = "FINISHED" =>
            LET job == StoredJob(jobs', d["id"])
            IN  /\ d["id"] \in JobIdsOf(jobs')
                /\ job["status"] = "FINISHED"
                /\ Len(job["starts_and_stops"]) = Len(d["starts_and_stops"])

(* C20 as stated: a Job is created ACTIVE with exactly one open interval;
   finish() always leaves status FINISHED and sets the stop of the last
   interval to the current time, also on a Job that is FINISHED already;
   and no operation takes a FINISHED Job back to ACTIVE or adds or removes
   intervals. *)
C20_Original == [][JobCreatedOpen /\ FinishStamps /\ FinishedStays]_vars

----------------------------------------------------------------------------
(* Page priorities: model.py Page.populate_defaults, Page._calc_priority and
   new_seed_page, over pages whose urls are texts *)

MaxHopsFromSeed == 11

(* The pages of one store in these runs *)
MaxPriorityPages == 1

(* The hops_from_seed of the model: the seed, a page on the way, the last
   hop that still counts, and one beyond it. *)
HopsFromSeed == {0, 3, MaxHopsFromSeed - 1, MaxHopsFromSeed}

(* The urls of the model: without path, with the root path, with a fragment
   that has a slash, with a query that has one, and paths of two and of
   five segments. *)
PriorityUrls ==
    { <<"http:", "/", "/", "a.com">>,
      <<"http:", "/", "/", "a.com", "/">>,
      <<"http:", "/", "/", "a.com", "#", "f", "/", "g">>,
      <<"http:", "/", "/", "a.com", "/", "x", "?", "u=", "/", "y">>,
      <<"http:", "/", "/", "a.com", "/", "x", "/", "y">>,
      <<"http:", "/", "/", "a.com", "/", "a", "/", "b", "/", "c", "/", "d", "/", "e">> }

(* What Page(...) is built from: a site id and a url, with or without
   hops_from_seed, and never a priority: a link that a worker found. *)
LinkKwargs ==
    {[site_id |-> s, url |-> u] : s \in SiteIds, u \in PriorityUrls}
    \cup {[site_id |-> s, url |-> u, hops_from_seed |-> h] :
            s \in SiteIds, u \in PriorityUrls, h \in HopsFromSeed}

(* Page(rr, kwargs) for a link, then new_page(page): `last` keeps the
   kwargs beside the id. *)
page_new(kwargs) ==
    LET page == Page(kwargs)
        r == Insert(pages, page)
    IN  /\ Cardinality(pages) < MaxPriorityPages \/ page.id \in PageIdsOf(pages)
        /\ pages' = r.tbl
        /\ last' = Call("Page", <<page.id>>,
                        IF _vet_result(r.result, [inserted |-> Exactly(1)])
                        THEN "ok" ELSE "UnexpectedDbResult", {kwargs})
        /\ UNCHANGED <<sites, heldSites, log, ns, site, jobs, nj, now, schema>>

(* new_seed_page(frontier, site) for a seed with a fragment or without, then
   the insert of new_job *)
seed_page_new(site_id, url) ==
    LET page == new_seed_page(site_id, <<UpTo(url, "#"), "">>)
        r == Insert(pages, page)
    IN  /\ Cardinality(pages) < MaxPriorityPages \/ page.id \in PageIdsOf(pages)
        /\ pages' = r.tbl
        /\ last' = Call("new_seed_page", <<page.id>>,
                        IF _vet_result(r.result, [inserted |-> Exactly(1)])
                        THEN "ok" ELSE "UnexpectedDbResult", {})
        /\ UNCHANGED <<sites, heldSites, log, ns, site, jobs, nj, now, schema>>

(* A stored page is loaded, which runs the default-population pass, one of
   hops_from_seed and url is set anew, and update_page(page) writes it. *)
page_edit(id, key, value) ==
    /\ \E d \in pages :
          /\ d.id = id
          /\ d[key] # value
          /\ LET page == Merged(Page(d), (key :> value))
                 r == GetUpdate(pages, id, page)
             IN  /\ pages' = r.tbl
                 /\ last' = Call("edit", <<id>>, "ok", {})
    /\ UNCHANGED <<sites, heldSites, log, ns, site, jobs, nj, now, schema>>

(* A stored page is loaded, which runs the default-population pass, and
   update_page(page) writes it as it is. *)
page_load(id) ==
    /\ \E d \in pages :
          /\ d.id = id
          /\ LET r == GetUpdate(pages, id, Page(d))
             IN  /\ pages' = r.tbl
                 /\ last' = Call("load", <<id>>, "ok", {d})
    /\ UNCHANGED <<sites, heldSites, log, ns, site, jobs, nj, now, schema>>

(* The store is empty, or holds one document of before priorities were
   stored: it has no priority key. *)
InitPriority ==
    /\ sites = {}
    /\ pages \in {{}} \cup
          {{[id |-> compute_id(1, u), site_id |-> 1, url |-> u,
             hops_from_seed |-> h, claimed |-> FALSE, brozzle_count |-> 0]} :
              u \in PriorityUrls, h \in HopsFromSeed}
    /\ heldSites = [w \in Workers |-> {}]
    /\ last = NoCall
    /\ log = <<>>
    /\ ns = NoNewSite
    /\ site = NoSite
    /\ jobs = {}
    /\ nj = NoNewJob
    /\ now = 1
    /\ schema = SchemaReady

NextPriority ==
    \/ \E kwargs \in LinkKwargs : page_new(kwargs)
    \/ \E s \in SiteIds, u \in PriorityUrls : seed_page_new(s, u)
    \/ \E d \in pages, h \in HopsFromSeed :
          page_edit(d.id, "hops_from_seed", h)
    \/ \E d \in pages, u \in PriorityUrls : page_edit(d.id, "url", u)
    \/ \E d \in pages : page_load(d.id)

SpecPriority == InitPriority /\ [][NextPriority]_vars

(* Statements about page priorities *)

Slashes(text) == Cardinality({i \in 1..Len(text) : text[i] = "/"})

(* The text before the first hash sign *)
NoFragment(url) ==
    IF \E i \in 1..Len(url) : url[i] = "#"
    THEN SubSeq(url, 1, (CHOOSE i \in 1..Len(url) :
                            url[i] = "#" /\ \A j \in 1..(i - 1) : url[j] # "#") - 1)
    ELSE url

(* A slash after the two of the scheme and before any query *)
HasPath(url) ==
    \E i \in 1..Len(url) :
        /\ url[i] = "/"
        /\ Cardinality({j \in 1..(i - 1) : url[j] = "/"}) >= 2
        /\ \A j \in 1..i : url[j] # "?"

(* The number of "/" in the canonical form of a url *)
CanonicalSlashes(url) ==
    LET u == NoFragment(url)
    IN  IF HasPath(u) THEN Slashes(u) ELSE Slashes(u) + 1

AtLeastZero(n) == IF n < 0 THEN 0 ELSE n

ExpectedPriority(k) ==
    LET hops == IF "hops_from_seed" \in DOMAIN k THEN k.hops_from_seed ELSE 0
    IN  AtLeastZero(10 - hops) + AtLeastZero(6 - CanonicalSlashes(k.url))

(* A default-population pass has just run over the document or the kwargs
   in last.val, and its page is the stored page of the id in last.arg. *)
PassRan == last.op \in {"Page", "load"} /\ last.out = "ok"

PriorityAsPopulated ==
    PassRan =>
        \A k \in last.val : \A p \in pages :
            p.id = last.arg[1] =>
                IF "priority" \in DOMAIN k
                THEN p.priority = k.priority
                ELSE p.priority = ExpectedPriority(k)

PriorityStays ==
    \A d \in pages :
        "priority" \in DOMAIN d =>
            \A e \in pages' :
                e.id = d.id => "priority" \in DOMAIN e /\ e.priority = d.priority

(* C21: a default-population pass over a page without priority sets it to
   max(0, 10 - hops_from_seed) + max(0, 6 - the number of "/" in the
   canonical url), and a pass over a page with a priority leaves it; the
   seed page has the priority 1000 it was built with; and the priority a
   stored page has is the same after every step, whether the step changes
   hops_from_seed or url or runs the pass again. *)
C21_PriorityComputedOnce ==
    /\ []PriorityAsPopulated
    /\ [](last.op = "new_seed_page" /\ last.out = "ok" =>
             \A p \in pages : p.id = last.arg[1] => p.priority = SEED_PRIORITY)
    /\ [][PriorityStays]_vars

(* A pass has run over a stored page whose priority is no longer what its
   hops_from_seed and url would give, and has left that priority. *)
C21_Witness ==
    /\ last.op = "load"
    /\ \E d \in pages :
          /\ d.id = last.arg[1]
          /\ d \in last.val
          /\ d.priority # SEED_PRIORITY
          /\ d.priority # ExpectedPriority(d)
          /\ d.priority > 0

----------------------------------------------------------------------------
(* Draining a site: workers calling claim_page and has_outstanding_pages
   over a fixed set of pages (db.py:98-113); no page is inserted or updated
   meanwhile.  log keeps the claim_page calls in the order the store served
   them. *)

InitDrain ==
    /\ sites = {}
    /\ \E keys \in SUBSET (SiteIds \X Urls) :
          /\ Cardinality(keys) <= MaxFixed
          /\ \E f \in [keys -> Priorities \X (0..MaxBrozzle)] :
                pages = FixedPages(keys, f)
    /\ heldSites = [w \in Workers |-> {}]
    /\ last = NoCall
    /\ log = <<>>
    /\ ns = NoNewSite
    /\ site = NoSite
    /\ jobs = {}
    /\ nj = NoNewJob
    /\ now = 1
    /\ schema = SchemaReady

NextDrain ==
    \/ \E s \in SiteIds : claim_page_call(s)
    \/ \E s \in SiteIds : has_outstanding_pages(s)

SpecDrain == InitDrain /\ [][NextDrain]_vars

Successes(s) == {i \in CallsOn(s) : log[i].out = "ok"}

(* The calls on site s are through with the pages of `among`: each
   successful call returned one page of `among` that no call returned
   before, a call signalled NothingToClaim exactly when as many calls had
   succeeded as `among` has pages, and once that many have succeeded a
   has_outstanding_pages call on the site returns false. *)
Drained(s, among) ==
    /\ \A i \in Successes(s) :
          \E d \in log[i].val :
              /\ log[i].val = {d}
              /\ Merged(d, [claimed |-> FALSE]) \in among
              /\ d.id \notin ReturnedBefore(i)
    /\ \A i \in CallsOn(s) :
          log[i].out = "NothingToClaim" <=>
              Cardinality({j \in Successes(s) : j < i}) = Cardinality(among)
    /\ (/\ Cardinality(Successes(s)) = Cardinality(among)
        /\ last.op = "has_outstanding_pages"
        /\ last.arg = <<s>>) => last.out = "False"

(* C22 as stated: with a fixed set of pages, every page of the site that
   was unclaimed at the start is returned by exactly one successful
   claim_page call, no page is returned twice, and after as many successes
   as there were unclaimed pages every further call signals NothingToClaim
   and has_outstanding_pages(site) is false. *)
C22_Original == \A s \in SiteIds : Drained(s, Unclaimed0(s))

====
